---- MODULE Spec2Model ----
(***************************************************************************)
(* Verification model of the terminal buffer streaming and history-replay  *)
(* engine of vibetunnel: the worker pool (workers/pool.ts), the snapshot   *)
(* encoder (workers/tasks/encode-snapshot.ts), the buffer aggregator and   *)
(* the stream watcher (services/buffer-aggregator.ts, stream-watcher.ts).  *)
(* Each subsystem has its own specification over its own variables; the    *)
(* variables of the other subsystems stay at their initial values.         *)
(***************************************************************************)
EXTENDS Integers, Sequences, FiniteSets, TLC

VARIABLES
    \* ---- WorkerPool (workers/pool.ts)
    workers,        \* this.workers: sequence of wrapper ids
    busy,           \* wrapper.busy, per wrapper id
    pending,        \* wrapper.pending: task id, 0 for null
    life,           \* the worker thread: "none", "alive", "errored", "dead"
    queue,          \* this.queue: sequence of task ids
    nextTaskId,     \* this.nextTaskId
    disabled,       \* this.disabled
    disableReason,  \* this.disableReason, "null" for null
    outcome,        \* per task id, the state of the promise runTask returned
    rejectReason,   \* per task id, the error a rejected promise carries
    spawned,        \* number of Worker objects constructed so far
    destroyState,   \* destroy(): "live", "terminating" (awaiting), "destroyed"
    destroying,     \* the wrappers destroy() called terminate() on
    \* ---- BufferAggregator (services/buffer-aggregator.ts)
    conn,           \* per client socket: "new", "open" (readyState OPEN), "closed"
    registered,     \* the sockets that are keys of this.clientSubscriptions
    subs,           \* per socket, its subscription Map: session -> unsubscribe (listener id), 0 absent
    listeners,      \* the listener ids registered with the terminal manager
    regOwner,       \* per listener id, the <<socket, session>> it was registered for
    nextReg,        \* listener ids handed out so far
    inflight,       \* the subscribe handlers suspended at an await
    subscribesSent, \* subscribe messages received so far
    historySubs,    \* keys of this.historySubscriptions
    outbox,         \* per socket, the messages sent to it, in order
    \* ---- Snapshot encoder (workers/tasks/encode-snapshot.ts)
    encCur,         \* payload.snapshot of the encode task
    encPrev,        \* payload.previousSnapshot: <<>> for null, else <<snapshot>>
    encResult,      \* what encodeSnapshot produced: status "none" before the call
    encAgain,       \* what a second call on the same payload produced
    encHeap,        \* the byte found in memory that Buffer.allocUnsafe hands out
    \* ---- StreamWatcher: clients and file watchers (services/stream-watcher.ts)
    streamExists,   \* per session, whether the recording file exists
    activeWatchers, \* this.activeWatchers: per session [present, clients, watcher]
    respState,      \* per response object: "unused", "added" (addClient called), "closed"
    respSession,    \* per response object, the session it was added for (0 none)
    watchCreated,   \* per session, the fs.watch calls that returned a watcher
    watchClosed,    \* per session, the watcher.close() calls
    \* ---- StreamWatcher: the join-time scan of sendExistingContent
    recording,      \* the recording file, a sequence of tokens
    sessionInfo,    \* sessionManager's record: <<>> for none, else <<lastClearOffset>>
    scan,           \* the locals of the running sendExistingContent call
    scansStarted,   \* sendExistingContent calls so far
    \* ---- BufferAggregator: one local subscribe and its live frames
    liveConn,       \* clientWs.readyState of the subscribing socket: "open", "closed"
    joinPc,         \* where subscribeToLocalSession stands for that socket
    listening,      \* the buffer-change callback is registered with the terminal manager
    changes,        \* buffer changes notified to the callback so far
    encQueue,       \* encode tasks waiting for a free worker, in submission order
    encRunning,     \* encode tasks a worker is running
    liveSent,       \* the messages sent to the socket, in order
    \* ---- Event-stream router (routes/events.ts)
    sseEnv,         \* VIBETUNNEL_MAX_EVENTSTREAM_PER_KEY parsed: <<>> for NaN, else <<n>>
    sseClients,     \* clients: the registered connections
    clientBuckets,  \* clientBuckets: per key [present, members in insertion order]
    sseState,       \* per connection: "new", "open", "evicted", "closed", "refused"
    sseKey,         \* per connection, the client key derived from its request (0 none)
    sseNext,        \* connections arrived so far
    sseAttached,    \* sessionMonitorAttached
    \* ---- BufferAggregator in HQ mode: one remote server and its sessions
    hqRegistered,   \* the client sockets that are keys of this.clientSubscriptions
    hqClosed,       \* the client sockets that have closed
    hqSubs,         \* per client socket, the remote sessions in its subscription Map
    remoteEntry,    \* this.remoteConnections.get(remoteId): <<>> or <<upstream socket>>
    wsState,        \* per upstream socket: "none", "connecting", "open", "closing", "closed"
    remoteSubs,     \* per upstream socket, remoteConn.subscriptions
    hqInflight,     \* the calls suspended in connectToRemote
    \* ---- History chunk builder (workers/tasks/history-chunk.ts)
    hcPayload,      \* the HistoryChunkTaskPayload of the task
    hcResult,       \* the HistoryChunkTaskResult: <<>> before the call, else <<result>>
    \* ---- Broadcast loops (part_005 232-253, 522-543, 1307-1350; part_004 41-60)
    bcSubscribers,  \* the clients subscribed with an open connection
    bcLast,         \* the last broadcast: its kind, targets, failing writes, deliveries
    \* ---- History cache (services/history-store.ts)
    hsBackend,      \* "redis" (RedisHistoryStore) or "ipc" (IPCSharedHistoryStore)
    hsStore,        \* per session key: <<>> or <<what is stored>>
    hsLatest,       \* per session, the version last passed to setHistoryChunk, 0 for none
    hsVersion,      \* the number of setHistoryChunk calls
    hsGot,          \* <<>> or <<the last getHistoryChunk call and its result>>
    hsListeners,    \* per listener: "new", or "on"/"off" and the session it listens to
    hsChannel,      \* Redis channel: payloads published and not yet delivered here
    hsDue,          \* per chunk version, the listeners subscribed when it was set
    hsCalls,        \* per listener and chunk version, how often it was invoked
    \* ---- StreamWatcher: live tailing next to the join-time replay
    ltFile,         \* the recording file of the session, a sequence of tokens
    ltMtime,        \* the file's modification time, a counter
    ltInfo,         \* watcherInfo: present, clients, lastOffset, lastSize, lastMtime, lineBuffer
    ltScan,         \* per client, its sendExistingContent call and the offsets it replayed
    ltOut,          \* per client, the writes to its response, in order
    ltReads,        \* the byte ranges <<from, to>> the watcher callback has read
    ltIdleSeen      \* a watcher callback has run that read nothing

poolVars == <<workers, busy, pending, life, queue, nextTaskId, disabled,
              disableReason, outcome, rejectReason, spawned, destroyState,
              destroying>>

aggVars == <<conn, registered, subs, listeners, regOwner, nextReg, inflight,
             subscribesSent, historySubs, outbox>>

encVars == <<encCur, encPrev, encResult, encAgain, encHeap>>

watchVars == <<streamExists, activeWatchers, respState, respSession, watchCreated,
               watchClosed>>

scanVars == <<recording, sessionInfo, scan, scansStarted>>

liveVars == <<liveConn, joinPc, listening, changes, encQueue, encRunning, liveSent>>

sseVars == <<sseEnv, sseClients, clientBuckets, sseState, sseKey, sseNext, sseAttached>>

hqVars == <<hqRegistered, hqClosed, hqSubs, remoteEntry, wsState, remoteSubs, hqInflight>>

hcVars == <<hcPayload, hcResult>>

bcVars == <<bcSubscribers, bcLast>>

hsVars == <<hsBackend, hsStore, hsLatest, hsVersion, hsGot, hsListeners, hsChannel,
           hsDue, hsCalls>>

ltVars == <<ltFile, ltMtime, ltInfo, ltScan, ltOut, ltReads, ltIdleSeen>>

vars == <<poolVars, aggVars, encVars, watchVars, scanVars, liveVars, sseVars, hqVars,
          hcVars, bcVars, hsVars, ltVars>>

\* What each subsystem's actions leave alone.
NotPool == <<aggVars, encVars, watchVars, scanVars, liveVars, sseVars, hqVars, hcVars,
          bcVars, hsVars, ltVars>>
NotAgg == <<poolVars, encVars, watchVars, scanVars, liveVars, sseVars, hqVars, hcVars,
          bcVars, hsVars, ltVars>>
NotEnc == <<poolVars, aggVars, watchVars, scanVars, liveVars, sseVars, hqVars, hcVars,
          bcVars, hsVars, ltVars>>
NotWatch == <<poolVars, aggVars, encVars, scanVars, liveVars, sseVars, hqVars, hcVars,
          bcVars, hsVars, ltVars>>
NotScan == <<poolVars, aggVars, encVars, watchVars, liveVars, sseVars, hqVars, hcVars,
          bcVars, hsVars, ltVars>>
NotLive == <<poolVars, aggVars, encVars, watchVars, scanVars, sseVars, hqVars, hcVars,
          bcVars, hsVars, ltVars>>
NotSse == <<poolVars, aggVars, encVars, watchVars, scanVars, liveVars, hqVars, hcVars,
          bcVars, hsVars, ltVars>>
NotHq == <<poolVars, aggVars, encVars, watchVars, scanVars, liveVars, sseVars, hcVars,
          bcVars, hsVars, ltVars>>
NotHc == <<poolVars, aggVars, encVars, watchVars, scanVars, liveVars, sseVars, hqVars,
          bcVars, hsVars, ltVars>>
NotBc == <<poolVars, aggVars, encVars, watchVars, scanVars, liveVars, sseVars, hqVars,
          hcVars, hsVars, ltVars>>
NotHs == <<poolVars, aggVars, encVars, watchVars, scanVars, liveVars, sseVars, hqVars,
          hcVars, bcVars, ltVars>>
NotLt == <<poolVars, aggVars, encVars, watchVars, scanVars, liveVars, sseVars, hqVars,
          hcVars, bcVars, hsVars>>

(***************************************************************************)
(* Bounds                                                                  *)
(***************************************************************************)
PoolSize == 1
MaxTasks == 3
MaxWrappers == 3
NumClients == 2
NumSessions == 2
MaxSubscribes == 2
MaxRows == 2
MaxTwiceRows == 2
MaxResponses == 3
MaxLines == 3
MaxScans == 2
MaxTail == 2
MaxChanges == 3
LiveWorkers == 2
MaxConns == 4
NumKeys == 2
MaxCap == 2
MaxUpstreams == 3
MaxEvents == 4
ScenarioTailLines == 10
NumBcClients == 3
NumTailClients == 2
MaxTailWrites == 2
MaxChunks == 3
NumListeners == 2

(***************************************************************************)
(* Helpers                                                                 *)
(***************************************************************************)
RECURSIVE SeqRemove(_, _)
SeqRemove(s, x) ==
    IF s = <<>> THEN <<>>
    ELSE IF Head(s) = x THEN Tail(s)
    ELSE <<Head(s)>> \o SeqRemove(Tail(s), x)

SeqSet(s) == {s[i] : i \in 1..Len(s)}

(***************************************************************************)
(* WorkerPool                                                              *)
(***************************************************************************)
WrapperIds == 1..MaxWrappers
TaskIds == 1..MaxTasks
SpawnErrors == {"worker script not found", "worker spawn failed"}
DefaultDisableReason == "worker pool disabled"

\* this.disableReason ?? 'worker pool disabled'
DisableError == IF disableReason = "null" THEN DefaultDisableReason ELSE disableReason

\* promise.reject(reason): settles a pending promise, no effect on a settled one
Reject(out, t) == IF out[t] = "pending" THEN [out EXCEPT ![t] = "rejected"] ELSE out
RejectWith(rs, out, t, r) == IF out[t] = "pending" THEN [rs EXCEPT ![t] = r] ELSE rs

RECURSIVE RejectAll(_, _)
RejectAll(out, q) == IF q = <<>> THEN out ELSE RejectAll(Reject(out, Head(q)), Tail(q))

RECURSIVE RejectAllWith(_, _, _, _)
RejectAllWith(rs, out, q, r) ==
    IF q = <<>> THEN rs
    ELSE RejectAllWith(RejectWith(rs, out, Head(q), r), Reject(out, Head(q)), Tail(q), r)

\* this.workers.find((wrapper) => !wrapper.busy): 0 when there is none
RECURSIVE FindFree(_, _)
FindFree(ws, b) ==
    IF ws = <<>> THEN 0
    ELSE IF ~b[Head(ws)] THEN Head(ws)
    ELSE FindFree(Tail(ws), b)

\* processQueue() taking the task at the end of the queue
ProcessQueueNewestFirst(st) ==
    IF st.disabled
    THEN [st EXCEPT !.outcome = RejectAll(st.outcome, st.queue),
                    !.rejectReason = RejectAllWith(st.rejectReason, st.outcome, st.queue,
                                        IF st.disableReason = "null"
                                        THEN DefaultDisableReason ELSE st.disableReason),
                    !.queue = <<>>]
    ELSE IF st.queue = <<>> THEN st
    ELSE LET freeWorker == FindFree(st.workers, st.busy) IN
         IF freeWorker = 0 THEN st
         ELSE [st EXCEPT !.queue = SubSeq(st.queue, 1, Len(st.queue) - 1),
                         !.busy = [st.busy EXCEPT ![freeWorker] = TRUE],
                         !.pending = [st.pending EXCEPT ![freeWorker] =
                                          st.queue[Len(st.queue)]]]

\* The pool state processQueue() leaves, from the state st it is called in.
\* st is a record of the fields processQueue reads and writes.
ProcessQueue(st) ==
    IF st.disabled
    THEN [st EXCEPT !.outcome = RejectAll(st.outcome, st.queue),
                    !.rejectReason = RejectAllWith(st.rejectReason, st.outcome, st.queue,
                                        IF st.disableReason = "null"
                                        THEN DefaultDisableReason ELSE st.disableReason),
                    !.queue = <<>>]
    ELSE IF st.queue = <<>> THEN st
    ELSE LET freeWorker == FindFree(st.workers, st.busy) IN
         IF freeWorker = 0 THEN st
         ELSE [st EXCEPT !.queue = Tail(st.queue),
                         !.busy = [st.busy EXCEPT ![freeWorker] = TRUE],
                         !.pending = [st.pending EXCEPT ![freeWorker] = Head(st.queue)]]

PoolState ==
    [workers |-> workers, busy |-> busy, pending |-> pending, queue |-> queue,
     disabled |-> disabled, disableReason |-> disableReason,
     outcome |-> outcome, rejectReason |-> rejectReason]

SetPool(st) ==
    /\ workers' = st.workers
    /\ busy' = st.busy
    /\ pending' = st.pending
    /\ queue' = st.queue
    /\ disabled' = st.disabled
    /\ disableReason' = st.disableReason
    /\ outcome' = st.outcome
    /\ rejectReason' = st.rejectReason

\* constructor: createWorker() up to size times; the first throw disables the pool
\* n is the number of createWorker() calls that returned
ConstructPool(n) ==
    /\ workers = [i \in 1..n |-> i]
    /\ life = [w \in WrapperIds |-> IF w <= n THEN "alive" ELSE "none"]
    /\ spawned = n
    /\ disabled = (n < PoolSize)
    /\ IF n < PoolSize THEN disableReason \in SpawnErrors ELSE disableReason = "null"
    /\ busy = [w \in WrapperIds |-> FALSE]
    /\ pending = [w \in WrapperIds |-> 0]
    /\ queue = <<>>
    /\ nextTaskId = 0
    /\ outcome = [t \in TaskIds |-> "none"]
    /\ rejectReason = [t \in TaskIds |-> "none"]
    /\ destroyState = "live"
    /\ destroying = {}

\* runTask(type, payload)
RunTask ==
    /\ nextTaskId < MaxTasks
    /\ LET t == nextTaskId + 1 IN
       IF disabled
       THEN /\ outcome' = [outcome EXCEPT ![t] = "rejected"]
            /\ rejectReason' = [rejectReason EXCEPT ![t] = DisableError]
            /\ nextTaskId' = t
            /\ UNCHANGED <<workers, busy, pending, queue, disabled, disableReason>>
       ELSE /\ nextTaskId' = t
            /\ SetPool(ProcessQueue([PoolState EXCEPT
                                        !.queue = Append(queue, t),
                                        !.outcome = [outcome EXCEPT ![t] = "pending"]]))
    /\ UNCHANGED <<life, spawned, destroyState, destroying>>
    /\ UNCHANGED NotPool

\* handleWorkerMessage with wrapper.busy left set
HandleWorkerMessageKeepsBusy(w, isError) ==
    LET p == pending[w]
        cleared == [PoolState EXCEPT !.pending = [pending EXCEPT ![w] = 0]]
    IN IF p = 0 THEN cleared
       ELSE ProcessQueue(
              IF isError
              THEN [cleared EXCEPT !.outcome = Reject(outcome, p),
                                   !.rejectReason = RejectWith(rejectReason, outcome, p, "task error")]
              ELSE [cleared EXCEPT !.outcome =
                        IF outcome[p] = "pending" THEN [outcome EXCEPT ![p] = "resolved"]
                        ELSE outcome])

\* handleWorkerMessage(wrapper, message): the worker thread answers its task
HandleWorkerMessage(w, isError) ==
    LET p == pending[w]
        cleared == [PoolState EXCEPT !.pending = [pending EXCEPT ![w] = 0],
                                     !.busy = [busy EXCEPT ![w] = FALSE]]
    IN IF p = 0 THEN cleared
       ELSE ProcessQueue(
              IF isError
              THEN [cleared EXCEPT !.outcome = Reject(outcome, p),
                                   !.rejectReason = RejectWith(rejectReason, outcome, p, "task error")]
              ELSE [cleared EXCEPT !.outcome =
                        IF outcome[p] = "pending" THEN [outcome EXCEPT ![p] = "resolved"]
                        ELSE outcome])

WorkerMessage(w) ==
    /\ life[w] = "alive"
    /\ busy[w]
    /\ \E isError \in BOOLEAN : SetPool(HandleWorkerMessage(w, isError))
    /\ UNCHANGED <<life, nextTaskId, spawned, destroyState, destroying>>
    /\ UNCHANGED NotPool

\* handleWorkerFailure without its "if (this.disabled) return" guard
HandleWorkerFailureNoGuard(w, error, spawnOk, spawnError) ==
    LET p == pending[w]
        out1 == IF p # 0 THEN Reject(outcome, p) ELSE outcome
        rs1 == IF p # 0 THEN RejectWith(rejectReason, outcome, p, error) ELSE rejectReason
    IN ProcessQueue(
         IF spawnOk
         THEN [PoolState EXCEPT !.outcome = out1, !.rejectReason = rs1]
         ELSE [PoolState EXCEPT !.outcome = out1, !.rejectReason = rs1,
                                !.disabled = TRUE,
                                !.disableReason = spawnError])

\* handleWorkerFailure(wrapper, error); spawnOk is whether createWorker() returns,
\* spawnError what it throws otherwise.
HandleWorkerFailure(w, error, spawnOk, spawnError) ==
    IF disabled THEN PoolState
    ELSE LET p == pending[w]
             out1 == IF p # 0 THEN Reject(outcome, p) ELSE outcome
             rs1 == IF p # 0 THEN RejectWith(rejectReason, outcome, p, error) ELSE rejectReason
             ws1 == SeqRemove(workers, w)
             n == spawned + 1
         IN ProcessQueue(
              IF spawnOk
              THEN [PoolState EXCEPT !.outcome = out1, !.rejectReason = rs1,
                                     !.workers = Append(ws1, n)]
              ELSE [PoolState EXCEPT !.outcome = out1, !.rejectReason = rs1,
                                     !.workers = ws1,
                                     !.disabled = TRUE,
                                     !.disableReason = spawnError])

\* A failure event of wrapper w: the handler above, the Worker constructed for the
\* replacement, and the thread's new state. A wrapper that is dead and no longer
\* in this.workers is unreachable: its fields are dropped.
FailureEvent(w, error, newLife) ==
    \E spawnOk \in BOOLEAN, spawnError \in SpawnErrors :
        LET st == HandleWorkerFailure(w, error, spawnOk, spawnError)
            gone == newLife = "dead" /\ w \notin SeqSet(st.workers)
        IN /\ (~disabled /\ spawnOk) => spawned < MaxWrappers
           /\ SetPool(IF gone
                      THEN [st EXCEPT !.busy = [st.busy EXCEPT ![w] = FALSE],
                                      !.pending = [st.pending EXCEPT ![w] = 0]]
                      ELSE st)
           /\ IF ~disabled /\ spawnOk
              THEN /\ spawned' = spawned + 1
                   /\ life' = [life EXCEPT ![w] = newLife, ![spawned + 1] = "alive"]
              ELSE /\ spawned' = spawned
                   /\ life' = [life EXCEPT ![w] = newLife]
           /\ UNCHANGED <<nextTaskId, destroyState, destroying>>
           /\ UNCHANGED NotPool

\* worker.on('error'): an uncaught exception in the thread; its 'exit' follows
WorkerError(w) ==
    /\ life[w] = "alive"
    /\ FailureEvent(w, "worker error", "errored")

\* worker.on('exit') with a non-zero code: after an 'error', after terminate(),
\* or on its own
WorkerExit(w) ==
    /\ life[w] \in {"alive", "errored"}
    /\ FailureEvent(w, "Worker exited with code 1", "dead")

\* destroy(): terminate() every worker, then await their exits
DestroyBegin ==
    /\ destroyState = "live"
    /\ destroyState' = "terminating"
    /\ destroying' = SeqSet(workers)
    /\ UNCHANGED <<workers, busy, pending, life, queue, nextTaskId, disabled,
                   disableReason, outcome, rejectReason, spawned>>
    /\ UNCHANGED NotPool

\* destroy() after the await: this.workers = []; this.queue = []
DestroyEnd ==
    /\ destroyState = "terminating"
    /\ \A w \in destroying : life[w] = "dead"
    /\ workers' = <<>>
    /\ queue' = <<>>
    /\ destroyState' = "destroyed"
    /\ destroying' = {}
    /\ UNCHANGED <<busy, pending, life, nextTaskId, disabled, disableReason,
                   outcome, rejectReason, spawned>>
    /\ UNCHANGED NotPool

NextPool ==
    \/ RunTask
    \/ \E w \in WrapperIds : WorkerMessage(w)
    \/ \E w \in WrapperIds : WorkerError(w)
    \/ \E w \in WrapperIds : WorkerExit(w)
    \/ DestroyBegin
    \/ DestroyEnd


(***************************************************************************)
(* BufferAggregator: client sockets subscribing to local sessions          *)
(***************************************************************************)
Clients == 1..NumClients
Sessions == 1..NumSessions
RegIds == 1..MaxSubscribes

\* ws.send(message) from the aggregator to a client socket
Send(box, c, msg) == [box EXCEPT ![c] = Append(@, msg)]

\* clientWs.readyState === WebSocket.OPEN guarded send
SendIfOpen(box, c, msg) == IF conn[c] = "open" THEN Send(box, c, msg) ELSE box

\* getTotalSubscribers(sessionId), over the Maps held in clientSubscriptions
GetTotalSubscribers(reg, sb, s) == Cardinality({c \in reg : sb[c][s] # 0})

\* ensureHistorySubscription(sessionId)
EnsureHistorySubscription(hs, s) == hs \cup {s}

\* cleanupHistorySubscription(sessionId)
CleanupHistorySubscription(hs, reg, sb, s) ==
    IF GetTotalSubscribers(reg, sb, s) > 0 THEN hs ELSE hs \ {s}

\* constructor: no client, no subscription
InitAggVars ==
    /\ conn = [c \in Clients |-> "new"]
    /\ registered = {}
    /\ subs = [c \in Clients |-> [s \in Sessions |-> 0]]
    /\ listeners = {}
    /\ regOwner = [r \in RegIds |-> <<0, 0>>]
    /\ nextReg = 0
    /\ inflight = {}
    /\ subscribesSent = 0
    /\ historySubs = {}
    /\ outbox = [c \in Clients |-> <<>>]

\* handleClientConnection(ws)
HandleClientConnection(c) ==
    /\ conn[c] = "new"
    /\ conn' = [conn EXCEPT ![c] = "open"]
    /\ registered' = registered \cup {c}
    /\ outbox' = Send(outbox, c, <<"connected", 0>>)
    /\ UNCHANGED <<subs, listeners, regOwner, nextReg, inflight, subscribesSent, historySubs>>
    /\ UNCHANGED NotAgg

\* handleClientMessage, type 'subscribe', up to the first await of
\* subscribeToLocalSession (terminalManager.subscribeToBufferChanges)
HandleSubscribe(c, s) ==
    /\ conn[c] = "open"
    /\ c \in registered
    /\ subscribesSent < MaxSubscribes
    /\ subscribesSent' = subscribesSent + 1
    /\ IF subs[c][s] # 0
       THEN /\ outbox' = Send(outbox, c, <<"subscribed-dedup", s>>)
            /\ UNCHANGED inflight
       ELSE /\ inflight' = inflight \cup {[id |-> subscribesSent + 1, client |-> c,
                                           session |-> s, pc |-> "subscribing"]}
            /\ UNCHANGED outbox
    /\ UNCHANGED <<conn, registered, subs, listeners, regOwner, nextReg, historySubs>>
    /\ UNCHANGED NotAgg

\* subscribeToLocalSession after subscribeToBufferChanges resolved: record the
\* unsubscribe function in the Map fetched before the await, then await the
\* initial snapshot and its encoding
SubscribeResolved(h) ==
    /\ h \in inflight /\ h.pc = "subscribing"
    /\ nextReg' = nextReg + 1
    /\ regOwner' = [regOwner EXCEPT ![nextReg + 1] = <<h.client, h.session>>]
    /\ listeners' = listeners \cup {nextReg + 1}
    /\ subs' = [subs EXCEPT ![h.client][h.session] = nextReg + 1]
    /\ historySubs' = EnsureHistorySubscription(historySubs, h.session)
    /\ inflight' = (inflight \ {h}) \cup {[h EXCEPT !.pc = "snapshot"]}
    /\ UNCHANGED <<conn, registered, subscribesSent, outbox>>
    /\ UNCHANGED NotAgg

\* subscribeToBufferChanges rejected: the catch block sends an error, and
\* handleClientMessage goes on to send 'subscribed'
SubscribeRejected(h) ==
    /\ h \in inflight /\ h.pc = "subscribing"
    /\ outbox' = Send(Send(outbox, h.client, <<"error", h.session>>),
                      h.client, <<"subscribed", h.session>>)
    /\ inflight' = inflight \ {h}
    /\ UNCHANGED <<conn, registered, subs, listeners, regOwner, nextReg,
                   subscribesSent, historySubs>>
    /\ UNCHANGED NotAgg

\* the initial snapshot is encoded: send it if the socket is open, then await the
\* cached history chunk
InitialEncoded(h) ==
    /\ h \in inflight /\ h.pc = "snapshot"
    /\ outbox' = SendIfOpen(outbox, h.client, <<"initial-frame", h.session>>)
    /\ inflight' = (inflight \ {h}) \cup {[h EXCEPT !.pc = "history"]}
    /\ UNCHANGED <<conn, registered, subs, listeners, regOwner, nextReg,
                   subscribesSent, historySubs>>
    /\ UNCHANGED NotAgg

\* sendCachedHistoryChunk after getHistoryChunk resolved (hasChunk: the store holds
\* a chunk for the session), then handleClientMessage sends 'subscribed'
HistoryFetched(h) ==
    /\ h \in inflight /\ h.pc = "history"
    /\ \E hasChunk \in BOOLEAN :
         outbox' = Send(IF hasChunk
                        THEN SendIfOpen(outbox, h.client, <<"history-chunk", h.session>>)
                        ELSE outbox,
                        h.client, <<"subscribed", h.session>>)
    /\ inflight' = inflight \ {h}
    /\ UNCHANGED <<conn, registered, subs, listeners, regOwner, nextReg,
                   subscribesSent, historySubs>>
    /\ UNCHANGED NotAgg

\* handleClientMessage, type 'unsubscribe' (local session)
HandleUnsubscribe(c, s) ==
    /\ conn[c] = "open"
    /\ c \in registered
    /\ LET sb == [subs EXCEPT ![c][s] = 0] IN
       /\ subs' = sb
       /\ listeners' = listeners \ {subs[c][s]}
       /\ historySubs' = CleanupHistorySubscription(historySubs, registered, sb, s)
    /\ UNCHANGED <<conn, registered, regOwner, nextReg, inflight, subscribesSent, outbox>>
    /\ UNCHANGED NotAgg

\* handleClientDisconnect(ws), run by the socket's 'close' event: every entry of the
\* socket's Map is unsubscribed (cleanupHistorySubscription runs while the entry is
\* still in the Map), the Map is cleared and removed from clientSubscriptions
HandleClientDisconnect(c) ==
    /\ conn[c] = "open"
    /\ conn' = [conn EXCEPT ![c] = "closed"]
    /\ listeners' = listeners \ {subs[c][s] : s \in Sessions}
    /\ historySubs' = {s \in historySubs :
                          subs[c][s] = 0 \/ GetTotalSubscribers(registered, subs, s) > 0}
    /\ subs' = [subs EXCEPT ![c] = [s \in Sessions |-> 0]]
    /\ registered' = registered \ {c}
    /\ UNCHANGED <<regOwner, nextReg, inflight, subscribesSent, outbox>>
    /\ UNCHANGED NotAgg

NextAgg ==
    \/ \E c \in Clients : HandleClientConnection(c)
    \/ \E c \in Clients, s \in Sessions : HandleSubscribe(c, s)
    \/ \E h \in inflight : SubscribeResolved(h)
    \/ \E h \in inflight : SubscribeRejected(h)
    \/ \E h \in inflight : InitialEncoded(h)
    \/ \E h \in inflight : HistoryFetched(h)
    \/ \E c \in Clients, s \in Sessions : HandleUnsubscribe(c, s)
    \/ \E c \in Clients : HandleClientDisconnect(c)

(***************************************************************************)
(* Snapshot encoder (workers/tasks/encode-snapshot.ts)                     *)
(***************************************************************************)
\* an optional field of BufferCell that is undefined
Undefined == -1

MAGIC_HEADER == 22100

\* a BufferCell; char is held as the UTF-8 bytes of the string
Cell(ch, w, f, b, a) == [char |-> ch, width |-> w, fg |-> f, bg |-> b, attributes |-> a]

\* the cells the snapshots below are built from
Space == Cell(<<32>>, 1, Undefined, Undefined, Undefined)
Plain(code) == Cell(<<code>>, 1, Undefined, Undefined, Undefined)
Styled(code, a) == Cell(<<code>>, 1, Undefined, Undefined, a)
EAcute == Cell(<<195, 169>>, 1, Undefined, Undefined, Undefined)
Coloured == Cell(<<97>>, 1, 1, 300, Undefined)

\* the rows the snapshots below are built from: empty, one default space, plain
\* text with a multi-byte character, text with attributes, five bold cells, a
\* cell with palette and tagged colours
RowCatalogue ==
    { <<>>,
      <<Space>>,
      <<Plain(97), Space, EAcute>>,
      <<Styled(97, 65), Plain(98), Plain(65)>>,
      <<Plain(97), Plain(65), Styled(98, 65)>>,
      <<Styled(97, 1), Styled(97, 1), Styled(97, 1), Styled(97, 1), Styled(97, 1)>>,
      <<Coloured>> }

\* <<cols, viewportY>> of the snapshots below
Dims == {<<80, 0>>, <<81, 0>>, <<80, 1>>}

\* the Snapshot values handed to the encoder: rows = cells.length
Snapshots ==
    UNION { { [cols |-> d[1], rows |-> n, viewportY |-> d[2], cursorX |-> 0,
               cursorY |-> 0, cells |-> c] :
                 d \in Dims, c \in [1..n -> RowCatalogue] } : n \in 1..MaxRows }

\* hashRow(row): the cells' fields joined; 'EMPTY', the hash of an empty row, is
\* the join of no cell
HashRow(row) ==
    IF Len(row) = 0 THEN <<>>
    ELSE [i \in 1..Len(row) |->
            <<row[i].char, row[i].width, row[i].fg, row[i].bg, row[i].attributes>>]

\* prevRowHashes[i]; past the end of the array it is undefined, which is the hash
\* of no row
HashAt(cells, i) ==
    IF i <= Len(cells) THEN HashRow(cells[i])
    ELSE << <<<<>>, Undefined, Undefined, Undefined, Undefined>> >>

IsSpace(cell) == cell.char = <<32>>
HasAttrs(cell) == cell.attributes # Undefined /\ cell.attributes # 0
HasFg(cell) == cell.fg # Undefined
HasBg(cell) == cell.bg # Undefined
IsAscii(cell) == cell.char[1] <= 127

\* !x for an optional number
Falsy(v) == v = Undefined \/ v = 0

\* the test both calculateRowSize and encodeRow make for the two-byte row record
IsBlankRow(row) ==
    \/ Len(row) = 0
    \/ /\ Len(row) = 1
       /\ IsSpace(row[1])
       /\ Falsy(row[1].fg) /\ Falsy(row[1].bg) /\ Falsy(row[1].attributes)

\* calculateCellSize(cell)
CalculateCellSize(cell) ==
    IF IsSpace(cell) /\ ~HasAttrs(cell) /\ ~HasFg(cell) /\ ~HasBg(cell) THEN 1
    ELSE 1
         + (IF IsAscii(cell) THEN 1 ELSE 1 + Len(cell.char))
         + (IF HasAttrs(cell) \/ HasFg(cell) \/ HasBg(cell)
            THEN 1 + (IF HasFg(cell) THEN (IF cell.fg > 255 THEN 3 ELSE 1) ELSE 0)
                   + (IF HasBg(cell) THEN (IF cell.bg > 255 THEN 3 ELSE 1) ELSE 0)
            ELSE 0)

RECURSIVE SumCellSizes(_)
SumCellSizes(row) ==
    IF row = <<>> THEN 0 ELSE CalculateCellSize(Head(row)) + SumCellSizes(Tail(row))

\* calculateRowSize(rowCells)
CalculateRowSize(row) == IF IsBlankRow(row) THEN 2 ELSE 3 + SumCellSizes(row)

\* buffer.writeUInt8 / writeUInt16LE / writeUInt32LE / writeInt32LE at offset: throws
\* a RangeError when the value or the offset is out of range
Write(bytes) == [copy |-> FALSE, bytes |-> bytes]

\* source.copy(buffer, offset): copies what fits and never throws
Copy(bytes) == [copy |-> TRUE, bytes |-> bytes]

UInt16LE(v) == <<v % 256, v \div 256>>
UInt32LE(v) == <<v % 256, (v \div 256) % 256, (v \div 65536) % 256, v \div 16777216>>
\* two's complement: the bytes of a negative v are those of -v - 1 inverted
Int32LE(v) ==
    IF v >= 0 THEN UInt32LE(v)
    ELSE [i \in 1..4 |-> 255 - UInt32LE(-v - 1)[i]]

\* the colour bytes of encodeRow: 0xff and a 16-bit value above 255, else one byte
ColourWrites(v) ==
    IF v > 255 THEN <<Write(<<255>>), Write(UInt16LE(v))>> ELSE <<Write(<<v>>)>>

\* the writes encodeRow makes for one cell
EncodeCell(cell) ==
    IF IsSpace(cell) /\ ~HasAttrs(cell) /\ ~HasFg(cell) /\ ~HasBg(cell)
    THEN <<Write(<<0>>)>>
    ELSE <<Write(<<1>>)>>
         \o (IF IsAscii(cell) THEN <<Write(<<cell.char[1]>>)>>
             ELSE <<Write(<<Len(cell.char)>>), Copy(cell.char)>>)
         \o (IF HasAttrs(cell) \/ HasFg(cell) \/ HasBg(cell)
             THEN <<Write(<<(IF HasAttrs(cell) THEN 1 ELSE 0)
                            + (IF HasFg(cell) THEN 2 ELSE 0)
                            + (IF HasBg(cell) THEN 4 ELSE 0)>>)>>
                  \o (IF HasAttrs(cell) THEN <<Write(<<cell.attributes>>)>> ELSE <<>>)
                  \o (IF HasFg(cell) THEN ColourWrites(cell.fg) ELSE <<>>)
                  \o (IF HasBg(cell) THEN ColourWrites(cell.bg) ELSE <<>>)
             ELSE <<>>)

RECURSIVE EncodeCells(_)
EncodeCells(row) ==
    IF row = <<>> THEN <<>> ELSE EncodeCell(Head(row)) \o EncodeCells(Tail(row))

\* encodeRow(buffer, offset, rowCells): the writes it makes, in order
EncodeRow(row) ==
    IF IsBlankRow(row) THEN <<Write(<<0>>), Write(<<0>>)>>
    ELSE <<Write(<<1>>), Write(UInt16LE(Len(row)))>> \o EncodeCells(row)

\* the header without its reserved field
EncodeHeaderNoReserved(snapshot, flags) ==
    << Write(UInt16LE(MAGIC_HEADER)), Write(<<1>>), Write(<<flags>>),
       Write(UInt32LE(snapshot.cols)), Write(UInt32LE(snapshot.rows)),
       Write(Int32LE(snapshot.viewportY)), Write(Int32LE(snapshot.cursorX)),
       Write(Int32LE(snapshot.cursorY)) >>

\* the header writes of encodeSnapshot (the same in both branches)
EncodeHeader(snapshot, flags) ==
    << Write(UInt16LE(MAGIC_HEADER)), Write(<<1>>), Write(<<flags>>),
       Write(UInt32LE(snapshot.cols)), Write(UInt32LE(snapshot.rows)),
       Write(Int32LE(snapshot.viewportY)), Write(Int32LE(snapshot.cursorX)),
       Write(Int32LE(snapshot.cursorY)), Write(UInt32LE(0)) >>

\* the loop of encodeSnapshot collecting changedRows, from index i (1-based) on
RECURSIVE ChangedRows(_, _, _)
ChangedRows(cells, prevCells, i) ==
    IF i > Len(cells) THEN <<>>
    ELSE (IF HashAt(prevCells, i) # HashRow(cells[i]) THEN <<i>> ELSE <<>>)
         \o ChangedRows(cells, prevCells, i + 1)

\* previousSnapshot is given and has the cols, rows and viewportY of snapshot
SameDims(snapshot, previous) ==
    /\ previous # <<>>
    /\ previous[1].cols = snapshot.cols
    /\ previous[1].rows = snapshot.rows
    /\ previous[1].viewportY = snapshot.viewportY

\* changedRows after the test changedRows.length > 0 && < cells.length
DiffRows(snapshot, previous) ==
    IF SameDims(snapshot, previous)
    THEN LET changed == ChangedRows(snapshot.cells, previous[1].cells, 1) IN
         IF Len(changed) > 0 /\ Len(changed) < Len(snapshot.cells) THEN changed ELSE <<>>
    ELSE <<>>

RECURSIVE SumRowSizes(_)
SumRowSizes(rows) ==
    IF rows = <<>> THEN 0 ELSE CalculateRowSize(Head(rows)) + SumRowSizes(Tail(rows))

RECURSIVE EncodeFullRows(_)
EncodeFullRows(rows) ==
    IF rows = <<>> THEN <<>> ELSE EncodeRow(Head(rows)) \o EncodeFullRows(Tail(rows))

\* the loop writing (index, row record) for each changed row; indices are 0-based
RECURSIVE EncodeDiffRows(_, _)
EncodeDiffRows(cells, changed) ==
    IF changed = <<>> THEN <<>>
    ELSE <<Write(UInt16LE(Head(changed) - 1))>> \o EncodeRow(cells[Head(changed)])
         \o EncodeDiffRows(cells, Tail(changed))

Min(a, b) == IF a < b THEN a ELSE b

InByteRange(bytes) == \A i \in 1..Len(bytes) : bytes[i] \in 0..255

\* the bytes uninitialised memory may hold
HeapBytes == {0, 170}

\* Buffer.allocUnsafe(size): size bytes of whatever the memory held
AllocUnsafe(size) == [i \in 1..size |-> encHeap]

\* buffer.subarray(0, offset) returning the whole buffer
SubarrayWhole(buffer, offset) == buffer

\* buffer.subarray(0, offset): the end is clamped to the buffer's length
Subarray(buffer, offset) == SubSeq(buffer, 1, Min(offset, Len(buffer)))

\* the writes applied in order to the buffer acc of size bytes, each at the
\* running offset, then buffer.subarray(0, offset); a write throws out of range
\* and a copy stores the bytes that fit
RECURSIVE WriteAll(_, _, _, _)
WriteAll(writes, offset, size, acc) ==
    IF writes = <<>> THEN [status |-> "ok", buffer |-> Subarray(acc, offset)]
    ELSE LET w == Head(writes) IN
         IF ~w.copy /\ (offset + Len(w.bytes) > size \/ ~InByteRange(w.bytes))
         THEN [status |-> "threw", buffer |-> <<>>]
         ELSE WriteAll(Tail(writes), offset + Len(w.bytes), size,
                       [i \in 1..size |->
                           IF i > offset /\ i <= offset + Len(w.bytes)
                           THEN w.bytes[i - offset] ELSE acc[i]])

\* encodeSnapshot(snapshot, previousSnapshot)
EncodeSnapshot(snapshot, previous) ==
    LET changed == DiffRows(snapshot, previous)
        useDiff == changed # <<>>
        flags == IF useDiff THEN 1 ELSE 0
        dataSize == IF useDiff
                    THEN 32 + 2 + 2 * Len(changed)
                         + SumRowSizes([k \in 1..Len(changed) |-> snapshot.cells[changed[k]]])
                    ELSE 32 + SumRowSizes(snapshot.cells)
        writes == IF useDiff
                  THEN EncodeHeader(snapshot, flags)
                       \o <<Write(UInt16LE(Len(changed)))>>
                       \o EncodeDiffRows(snapshot.cells, changed)
                  ELSE EncodeHeader(snapshot, flags) \o EncodeFullRows(snapshot.cells)
        written == WriteAll(writes, 0, dataSize, AllocUnsafe(dataSize))
    IN  [status |-> written.status, buffer |-> written.buffer,
         usedDiff |-> (written.status = "ok" /\ useDiff)]

\* before the encode task runs: a snapshot and a previous snapshot or null
InitEnc ==
    /\ encCur \in Snapshots
    /\ encPrev \in {<<>>} \cup {<<s>> : s \in Snapshots}
    /\ encResult = [status |-> "none", buffer |-> <<>>, usedDiff |-> FALSE]
    /\ encAgain = [status |-> "none", buffer |-> <<>>, usedDiff |-> FALSE]
    /\ encHeap \in HeapBytes

\* the encoder at rest while another subsystem runs
IdleEnc ==
    /\ encCur = [cols |-> 80, rows |-> 1, viewportY |-> 0, cursorX |-> 0,
                 cursorY |-> 0, cells |-> << <<>> >>]
    /\ encPrev = <<>>
    /\ encResult = [status |-> "none", buffer |-> <<>>, usedDiff |-> FALSE]
    /\ encAgain = [status |-> "none", buffer |-> <<>>, usedDiff |-> FALSE]
    /\ encHeap = 0

\* encodeSnapshotTask(payload); the memory handed to the next allocation holds
\* whatever other work left in it
EncodeSnapshotTask ==
    /\ encResult.status = "none"
    /\ encResult' = EncodeSnapshot(encCur, encPrev)
    /\ encHeap' \in HeapBytes
    /\ UNCHANGED <<encCur, encPrev, encAgain>>
    /\ UNCHANGED NotEnc

\* encodeSnapshotTask(payload) called once more with the same payload
EncodeSnapshotTaskAgain ==
    /\ encResult.status # "none"
    /\ encAgain.status = "none"
    /\ encAgain' = EncodeSnapshot(encCur, encPrev)
    /\ encHeap' \in HeapBytes
    /\ UNCHANGED <<encCur, encPrev, encResult>>
    /\ UNCHANGED NotEnc

NextEnc == EncodeSnapshotTask

\* the rows of the payloads encoded twice: a blank row, text with a multi-byte
\* character, five bold cells (a write past the buffer's end), five bold cells
\* and a multi-byte character (a copy cut at the buffer's end)
TwiceRows ==
    { <<Space>>,
      <<Plain(97), Space, EAcute>>,
      <<Styled(97, 1), Styled(97, 1), Styled(97, 1), Styled(97, 1), Styled(97, 1)>>,
      <<Styled(97, 1), Styled(97, 1), Styled(97, 1), Styled(97, 1), Styled(97, 1),
        EAcute>> }

\* snapshots of up to MaxTwiceRows of these rows, with <<cols, viewportY>> in dims
TwiceSnapshots(dims) ==
    UNION { { [cols |-> d[1], rows |-> n, viewportY |-> d[2], cursorX |-> 0,
               cursorY |-> 0, cells |-> c] :
                 d \in dims, c \in [1..n -> TwiceRows] } : n \in 1..MaxTwiceRows }

\* before the encode task runs on a payload that is encoded twice
InitEncTwice ==
    /\ encCur \in TwiceSnapshots({<<80, 0>>})
    /\ encPrev \in {<<>>} \cup {<<s>> : s \in TwiceSnapshots({<<80, 0>>, <<81, 0>>})}
    /\ encResult = [status |-> "none", buffer |-> <<>>, usedDiff |-> FALSE]
    /\ encAgain = [status |-> "none", buffer |-> <<>>, usedDiff |-> FALSE]
    /\ encHeap \in HeapBytes

NextEncTwice == EncodeSnapshotTask \/ EncodeSnapshotTaskAgain

\* The client-side decoder applied to a copy of snapshot a and a frame: a decoder
\* at its best returns a snapshot of a's shape whose encoding against a is the
\* frame.
DecodeAndApply(a, buffer) ==
    CHOOSE b \in {s \in Snapshots : s.cols = a.cols /\ s.rows = a.rows
                                      /\ s.viewportY = a.viewportY} :
        EncodeSnapshot(b, <<a>>).buffer = buffer

(***************************************************************************)
(* StreamWatcher: clients and file watchers (services/stream-watcher.ts)   *)
(***************************************************************************)
Responses == 1..MaxResponses

\* an entry of activeWatchers that is absent
NoWatcherInfo == [present |-> FALSE, clients |-> {}, watcher |-> "undefined"]

\* constructor: no watcher; the recording files may or may not exist yet
InitWatch ==
    /\ streamExists \in [Sessions -> BOOLEAN]
    /\ activeWatchers = [s \in Sessions |-> NoWatcherInfo]
    /\ respState = [r \in Responses |-> "unused"]
    /\ respSession = [r \in Responses |-> 0]
    /\ watchCreated = [s \in Sessions |-> 0]
    /\ watchClosed = [s \in Sessions |-> 0]

\* the stream watcher at rest while another subsystem runs
IdleWatch ==
    /\ streamExists = [s \in Sessions |-> FALSE]
    /\ activeWatchers = [s \in Sessions |-> NoWatcherInfo]
    /\ respState = [r \in Responses |-> "unused"]
    /\ respSession = [r \in Responses |-> 0]
    /\ watchCreated = [s \in Sessions |-> 0]
    /\ watchClosed = [s \in Sessions |-> 0]

\* the session's process creates the recording file
CreateStreamFile(s) ==
    /\ ~streamExists[s]
    /\ streamExists' = [streamExists EXCEPT ![s] = TRUE]
    /\ UNCHANGED <<activeWatchers, respState, respSession, watchCreated, watchClosed>>
    /\ UNCHANGED NotWatch

\* addClient(sessionId, streamPath, response, options) with a new response object.
\* sendExistingContent catches its own errors and only opens a read stream, whose
\* events are the join-time scan below.  startWatching calls fs.watch, which
\* throws ENOENT when the file does not exist: addClient then ends before
\* watcherInfo.clients.add(client), with the entry already in activeWatchers.
AddClient(s, r) ==
    /\ respState[r] = "unused"
    /\ respState' = [respState EXCEPT ![r] = "added"]
    /\ respSession' = [respSession EXCEPT ![r] = s]
    /\ IF ~activeWatchers[s].present
       THEN IF streamExists[s]
            THEN /\ activeWatchers' = [activeWatchers EXCEPT ![s] =
                        [present |-> TRUE, clients |-> {r}, watcher |-> "open"]]
                 /\ watchCreated' = [watchCreated EXCEPT ![s] = @ + 1]
            ELSE /\ activeWatchers' = [activeWatchers EXCEPT ![s] =
                        [present |-> TRUE, clients |-> {}, watcher |-> "undefined"]]
                 /\ UNCHANGED watchCreated
       ELSE /\ activeWatchers' = [activeWatchers EXCEPT ![s].clients = @ \cup {r}]
            /\ UNCHANGED watchCreated
    /\ UNCHANGED <<streamExists, watchClosed>>
    /\ UNCHANGED NotWatch

\* removeClient(sessionId, response), called when the response closes
RemoveClient(s, r) ==
    /\ respState[r] = "added" /\ respSession[r] = s
    /\ respState' = [respState EXCEPT ![r] = "closed"]
    /\ IF activeWatchers[s].present /\ r \in activeWatchers[s].clients
       THEN IF activeWatchers[s].clients = {r}
            THEN /\ activeWatchers' = [activeWatchers EXCEPT ![s] = NoWatcherInfo]
                 /\ watchClosed' = [watchClosed EXCEPT ![s] =
                        IF activeWatchers[s].watcher = "open" THEN @ + 1 ELSE @]
            ELSE /\ activeWatchers' = [activeWatchers EXCEPT ![s].clients = @ \ {r}]
                 /\ UNCHANGED watchClosed
       ELSE UNCHANGED <<activeWatchers, watchClosed>>
    /\ UNCHANGED <<streamExists, respSession, watchCreated>>
    /\ UNCHANGED NotWatch

NextWatch ==
    \/ \E s \in Sessions : CreateStreamFile(s)
    \/ \E s \in Sessions, r \in Responses : AddClient(s, r)
    \/ \E s \in Sessions, r \in Responses : RemoveClient(s, r)

(***************************************************************************)
(* StreamWatcher: the join-time scan of sendExistingContent                *)
(***************************************************************************)
MAX_INITIAL_TAIL_LINES == 5000

\* null
Null == -1

\* The recording is a sequence of tokens; t is what the token is and b the
\* number of bytes Buffer.byteLength gives for its text.
Tok(t, b) == [t |-> t, b |-> b]
HeaderTok == Tok("header", 5)       \* the header object {"version":2,...}
OutPrefix == Tok("o", 4)            \* [1,"o","
ResizePrefix == Tok("r", 4)         \* [1,"r","
Text == Tok("text", 1)              \* an ASCII character of the data
Wide == Tok("wide", 3)              \* a three-byte character of the data
Clear == Tok("clear", 9)            \* a clear sequence, JSON-escaped: \u001b[2J
Close == Tok("close", 2)            \* "]
ExitTok == Tok("exit", 6)           \* ["exit",0,"id"]
Newline == Tok("nl", 1)

OutputLine == <<OutPrefix, Wide, Text, Close>>
ClearLine == <<OutPrefix, Wide, Clear, Text, Close>>
ResizeLine == <<ResizePrefix, Text, Close>>
ExitLine == <<ExitTok>>

\* the event lines recordings are made of; an exit event only comes last
LineCatalogue == {OutputLine, ClearLine, ResizeLine}

RECURSIVE JoinLines(_)
JoinLines(lines) ==
    IF lines = <<>> THEN <<>>
    ELSE IF Len(lines) = 1 THEN Head(lines)
    ELSE Head(lines) \o <<Newline>> \o JoinLines(Tail(lines))

\* the header line, the event lines, and a newline after the last line or not
RecordingOf(lines, terminated) ==
    <<HeaderTok, Newline>> \o JoinLines(lines)
        \o (IF terminated /\ lines # <<>> THEN <<Newline>> ELSE <<>>)

EventLineSeqs ==
    UNION { [1..n -> LineCatalogue] : n \in 0..MaxLines }
    \cup UNION { { Append(ls, ExitLine) : ls \in [1..n -> LineCatalogue] } :
                   n \in 0..(MaxLines - 1) }

Recordings == { RecordingOf(ls, term) : ls \in EventLineSeqs, term \in BOOLEAN }

\* options.initialTailLines of the joins: none, small ones, one above the maximum
TailRequests == 0..MaxTail \cup {MAX_INITIAL_TAIL_LINES + 1}

\* Buffer.byteLength(text, 'utf8')
RECURSIVE ByteLength(_)
ByteLength(tokens) ==
    IF tokens = <<>> THEN 0 ELSE Head(tokens).b + ByteLength(Tail(tokens))

\* fs.createReadStream(streamPath, {encoding: 'utf8', start: offset}): the text
\* read from a byte offset.  A start inside a token leaves the rest of its bytes:
\* plain text for an ASCII token, one U+FFFD (three bytes) per stray byte of a
\* multi-byte character.
RECURSIVE ReadFrom(_, _)
ReadFrom(file, offset) ==
    IF file = <<>> \/ offset <= 0 THEN file
    ELSE IF offset >= Head(file).b THEN ReadFrom(Tail(file), offset - Head(file).b)
    ELSE <<Tok("garbage", IF Head(file).t = "wide"
                          THEN 3 * (Head(file).b - offset)
                          ELSE Head(file).b - offset)>> \o Tail(file)

\* lineBuffer.indexOf('\n'), 1-based; 0 for -1
IndexOfNewline(buffer) ==
    IF \E i \in 1..Len(buffer) : buffer[i].t = "nl"
    THEN CHOOSE i \in 1..Len(buffer) :
            buffer[i].t = "nl" /\ \A j \in 1..(i - 1) : buffer[j].t # "nl"
    ELSE 0

\* line.trim() and JSON.parse(line), and what the parsed value is; the prefix
\* of an event line holds its timestamp, 1
ParseLine(line) ==
    IF line = <<>> THEN [kind |-> "blank", time |-> 0, data |-> <<>>]
    ELSE IF line = <<HeaderTok>> THEN [kind |-> "header", time |-> 0, data |-> <<>>]
    ELSE IF line = <<ExitTok>> THEN [kind |-> "exit", time |-> 0, data |-> <<>>]
    ELSE IF /\ Len(line) >= 2
            /\ line[1].t \in {"o", "r", "i"}
            /\ line[Len(line)].t = "close"
            /\ \A i \in 2..(Len(line) - 1) : line[i].t \in {"text", "wide", "clear"}
         THEN [kind |-> line[1].t, time |-> 1, data |-> SubSeq(line, 2, Len(line) - 1)]
    ELSE [kind |-> "invalid", time |-> 0, data |-> <<>>]

\* containsPruningSequence(data)
ContainsPruningSequence(data) == \E i \in 1..Len(data) : data[i].t = "clear"

\* findLastPrunePoint(data).position: the end of the last clear sequence in the
\* data, as a number of tokens
FindLastPrunePoint(data) ==
    CHOOSE i \in 1..Len(data) :
        data[i].t = "clear" /\ \A j \in (i + 1)..Len(data) : data[j].t # "clear"

\* calculatePruningPositionInFile(fileOffset, eventLine, position): the offset of
\* the start of the line, taking fileOffset to be the offset after the line and
\* its newline, plus the bytes of the line up to the end of the sequence
CalculatePruningPositionInFile(fileOffset, eventLine, position) ==
    (fileOffset - ByteLength(eventLine) - 1)
        + ByteLength(SubSeq(eventLine, 1, position + 1))

\* processClearSequence(event, eventIndex, fileOffset, currentResize, eventLine)
ProcessClearSequence(data, eventIndex, fileOffset, currentResize, eventLine) ==
    [lastClearIndex |-> eventIndex,
     lastClearOffset |->
         CalculatePruningPositionInFile(fileOffset, eventLine, FindLastPrunePoint(data)),
     lastResizeBeforeClear |-> currentResize]

\* isOutputEvent(event)
IsOutputEvent(event) == event.kind = "o"

\* the payload of no history chunk
NoChunk ==
    [sent |-> FALSE, hasMore |-> FALSE, totalEvents |-> 0, totalOutputEvents |-> 0,
     chunkEventCount |-> 0, chunkOutputEvents |-> 0, chunkStartOffset |-> 0,
     previousOffset |-> Null, nextOffset |-> 0, initialTailLines |-> 0,
     events |-> <<>>]

\* the locals of sendExistingContent before any call; a resize event is held as
\* the offset of its line
IdleScanLocals ==
    [pc |-> "idle", requested |-> 0, initialTailLines |-> 0, startOffset |-> 0,
     rest |-> <<>>, lineBuffer |-> <<>>, header |-> FALSE, events |-> <<>>,
     eventOffsets |-> <<>>, lastClearIndex |-> -1, lastResizeBeforeClear |-> Null,
     currentResize |-> Null, fileOffset |-> 0, lastClearOffset |-> 0,
     baseStartIndex |-> 0, chunk |-> NoChunk, written |-> <<>>]

\* the branch of both stream handlers for an array that is no exit event: track
\* resize events, look for a clear sequence, push the event
PushEvent(st, parsed, line, lineStartOffset, fileOffset) ==
    LET currentResize == IF parsed.kind = "r" THEN lineStartOffset ELSE st.currentResize
        isClear == parsed.kind = "o" /\ ContainsPruningSequence(parsed.data)
        clearResult == ProcessClearSequence(parsed.data, Len(st.events), fileOffset,
                                            currentResize, line)
    IN  [st EXCEPT !.currentResize = currentResize,
                   !.lastClearIndex = IF isClear THEN clearResult.lastClearIndex ELSE @,
                   !.lastClearOffset = IF isClear THEN clearResult.lastClearOffset ELSE @,
                   !.lastResizeBeforeClear =
                        IF isClear THEN clearResult.lastResizeBeforeClear ELSE @,
                   !.events = Append(@, parsed),
                   !.eventOffsets = Append(@, lineStartOffset)]

\* the loop body with a line that fails to parse ending the scan
HandleLineAborting(st, line) ==
    LET lineStartOffset == st.fileOffset
        fileOffset == st.fileOffset + ByteLength(line) + 1
        st1 == [st EXCEPT !.fileOffset = fileOffset]
        parsed == ParseLine(line)
    IN  IF parsed.kind = "invalid" THEN [st1 EXCEPT !.lineBuffer = <<>>, !.rest = <<>>]
        ELSE IF parsed.kind = "blank" THEN st1
        ELSE IF parsed.kind = "header" THEN [st1 EXCEPT !.header = TRUE]
        ELSE IF parsed.kind = "exit"
             THEN [st1 EXCEPT !.events = Append(@, parsed),
                              !.eventOffsets = Append(@, lineStartOffset)]
        ELSE PushEvent(st1, parsed, line, lineStartOffset, fileOffset)

\* the body of the while loop of the 'data' handler for one complete line
HandleLine(st, line) ==
    LET lineStartOffset == st.fileOffset
        fileOffset == st.fileOffset + ByteLength(line) + 1
        st1 == [st EXCEPT !.fileOffset = fileOffset]
        parsed == ParseLine(line)
    IN  IF parsed.kind \in {"blank", "invalid"} THEN st1
        ELSE IF parsed.kind = "header" THEN [st1 EXCEPT !.header = TRUE]
        ELSE IF parsed.kind = "exit"
             THEN [st1 EXCEPT !.events = Append(@, parsed),
                              !.eventOffsets = Append(@, lineStartOffset)]
        ELSE PushEvent(st1, parsed, line, lineStartOffset, fileOffset)

\* the while loop of the 'data' handler: every complete line of lineBuffer
RECURSIVE DrainLines(_)
DrainLines(st) ==
    LET index == IndexOfNewline(st.lineBuffer) IN
    IF index = 0 THEN st
    ELSE DrainLines(HandleLine(
             [st EXCEPT !.lineBuffer = SubSeq(@, index + 1, Len(@))],
             SubSeq(st.lineBuffer, 1, index - 1)))

\* the start of the 'end' handler: the remaining line of lineBuffer
FinalLine(st) ==
    LET parsed == ParseLine(st.lineBuffer)
        lineStartOffset == st.fileOffset
        fileOffset == st.fileOffset + ByteLength(st.lineBuffer)
        st1 == [st EXCEPT !.fileOffset = fileOffset]
    IN  IF parsed.kind \in {"blank", "invalid"} THEN st
        ELSE IF parsed.kind = "header" THEN st1
        ELSE IF parsed.kind = "exit"
             THEN [st1 EXCEPT !.events = Append(@, parsed),
                              !.eventOffsets = Append(@, lineStartOffset)]
        ELSE PushEvent(st1, parsed, st.lineBuffer, lineStartOffset, fileOffset)

\* initialTailLines as sendExistingContent clamps it (the requests are integers)
InitialTailLines(requested) ==
    IF requested < 0 THEN 0
    ELSE IF requested > MAX_INITIAL_TAIL_LINES THEN MAX_INITIAL_TAIL_LINES
    ELSE requested

\* the count of output events with the slice not taken
CountOutputsUnsliced(events, from) ==
    Cardinality({i \in 1..Len(events) : IsOutputEvent(events[i])})

\* events.slice(from).reduce(count of output events); from is 0-based
CountOutputs(events, from) ==
    Cardinality({i \in (from + 1)..Len(events) : IsOutputEvent(events[i])})

\* the backward loop that finds sendStartIndex, with every event counted
RECURSIVE TailStartCountingAll(_, _, _, _, _)
TailStartCountingAll(events, idx, base, counter, n) ==
    IF counter + 1 >= n \/ idx = base THEN idx
    ELSE TailStartCountingAll(events, idx - 1, base, counter + 1, n)

\* the backward loop that finds sendStartIndex: from idx (0-based) down to base,
\* counting output events, until n are counted
RECURSIVE TailStart(_, _, _, _, _)
TailStart(events, idx, base, counter, n) ==
    LET counted == IF IsOutputEvent(events[idx + 1]) THEN counter + 1 ELSE counter IN
    IF (IsOutputEvent(events[idx + 1]) /\ counted >= n) \/ idx = base THEN idx
    ELSE TailStart(events, idx - 1, base, counted, n)

\* chunkEvents: the output and resize events from sendStartIndex on
ChunkEvents(events, sendStartIndex) ==
    SelectSeq(SubSeq(events, sendStartIndex + 1, Len(events)),
              LAMBDA e : e.kind \in {"o", "r"})

\* exitEventToSend: an exit event lies at sendStartIndex or later
HasExitEvent(events, from) ==
    \E i \in (from + 1)..Len(events) : events[i].kind = "exit"

\* the payload of the tail branch of the 'end' handler
TailChunk(st, base) ==
    LET sendStartIndex == TailStart(st.events, Len(st.events) - 1, base, 0,
                                    st.initialTailLines)
        hasMoreHistory == sendStartIndex > base
        chunkEvents == ChunkEvents(st.events, sendStartIndex)
    IN  [sent |-> TRUE,
         hasMore |-> hasMoreHistory,
         totalEvents |-> Len(st.events) - base,
         totalOutputEvents |-> CountOutputs(st.events, base),
         chunkEventCount |-> Len(chunkEvents),
         chunkOutputEvents |-> CountOutputs(chunkEvents, 0),
         chunkStartOffset |-> st.eventOffsets[sendStartIndex + 1],
         previousOffset |-> IF hasMoreHistory /\ sendStartIndex > 0
                            THEN st.eventOffsets[sendStartIndex] ELSE Null,
         nextOffset |-> st.fileOffset,
         initialTailLines |-> st.initialTailLines,
         events |-> [i \in 1..Len(chunkEvents) |->
                        [time |-> 0, kind |-> chunkEvents[i].kind]]]

\* the writes of the legacy branch: the events from startIndex on
RECURSIVE LegacyWrites(_, _)
LegacyWrites(events, from) ==
    IF from >= Len(events) THEN <<>>
    ELSE (IF events[from + 1].kind \in {"exit", "o", "r"}
          THEN <<events[from + 1].kind>> ELSE <<>>)
         \o LegacyWrites(events, from + 1)

\* the 'end' handler after the remaining line: persist the clear offset, write
\* the header, then the tail chunk or the legacy replay
FinishScan(st) ==
    LET base == IF st.lastClearIndex >= 0 THEN st.lastClearIndex + 1 ELSE 0
        headerWrite == IF st.header
                       THEN <<IF st.lastClearIndex >= 0 /\ st.lastResizeBeforeClear # Null
                              THEN "header-resized" ELSE "header">>
                       ELSE <<>>
        tail == st.initialTailLines > 0 /\ Len(st.events) > base
        exitWrites == IF HasExitEvent(st.events, base) THEN <<"end">> ELSE <<>>
    IN  [st EXCEPT
            !.pc = "done",
            !.baseStartIndex = base,
            !.chunk = IF tail THEN TailChunk(st, base) ELSE NoChunk,
            !.written =
                IF tail
                THEN headerWrite \o <<"history-chunk">>
                     \o (IF HasExitEvent(st.events,
                                         TailStart(st.events, Len(st.events) - 1, base, 0,
                                                   st.initialTailLines))
                         THEN <<"exit", "end">> ELSE <<>>)
                ELSE headerWrite \o LegacyWrites(st.events, base) \o exitWrites]

\* a recording, a session record or none, and no join yet
InitScan ==
    /\ recording \in Recordings
    /\ sessionInfo \in {<<>>, <<0>>}
    /\ scan = IdleScanLocals
    /\ scansStarted = 0

\* the scan at rest while another subsystem runs
IdleScan ==
    /\ recording = <<HeaderTok, Newline>>
    /\ sessionInfo = <<>>
    /\ scan = IdleScanLocals
    /\ scansStarted = 0

\* sendExistingContent(sessionId, streamPath, client, options) up to the creation
\* of the read stream: clamp the tail request, take the start offset from the
\* session record, read the header line
StartScan(requested) ==
    /\ scan.pc \in {"idle", "done"}
    /\ scansStarted < MaxScans
    /\ scansStarted' = scansStarted + 1
    /\ LET stored == IF sessionInfo = <<>> THEN 0 ELSE sessionInfo[1]
           startOffset == Min(stored, ByteLength(recording))
       IN  scan' = [IdleScanLocals EXCEPT
                        !.pc = "reading",
                        !.requested = requested,
                        !.initialTailLines = InitialTailLines(requested),
                        !.startOffset = startOffset,
                        !.header = (IndexOfNewline(recording) # 0
                                    /\ recording[1] = HeaderTok),
                        !.rest = ReadFrom(recording, startOffset),
                        !.fileOffset = startOffset,
                        !.lastClearOffset = startOffset]
    /\ UNCHANGED <<recording, sessionInfo>>
    /\ UNCHANGED NotScan

\* analysisStream 'data': a chunk of the next n tokens
ScanData(n) ==
    /\ scan.pc = "reading"
    /\ n \in 1..Len(scan.rest)
    /\ scan' = DrainLines([scan EXCEPT
                    !.lineBuffer = @ \o SubSeq(scan.rest, 1, n),
                    !.rest = SubSeq(@, n + 1, Len(@))])
    /\ UNCHANGED <<recording, sessionInfo, scansStarted>>
    /\ UNCHANGED NotScan

\* analysisStream 'end'
ScanEnd ==
    /\ scan.pc = "reading"
    /\ scan.rest = <<>>
    /\ LET st == FinishScan(FinalLine(scan)) IN
       /\ scan' = st
       /\ sessionInfo' = IF st.lastClearIndex >= 0 /\ sessionInfo # <<>>
                         THEN <<st.lastClearOffset>> ELSE sessionInfo
    /\ UNCHANGED <<recording, scansStarted>>
    /\ UNCHANGED NotScan

\* a line that is no JSON text, e.g. {x
MalformedLine == <<Tok("garbage", 2)>>

\* logs as any writer may leave them: event lines in any order, an exit event
\* anywhere, malformed lines among them
ReplayCatalogue == {OutputLine, ResizeLine, ExitLine, MalformedLine}

ReplayRecordings ==
    { RecordingOf(ls, term) :
        ls \in UNION { [1..n -> ReplayCatalogue] : n \in 0..MaxLines }, term \in BOOLEAN }

InitReplay ==
    /\ recording \in ReplayRecordings
    /\ sessionInfo = <<>>
    /\ scan = IdleScanLocals
    /\ scansStarted = 0

\* one join per log, with no tail limit or a small one
NextReplay ==
    \/ \E requested \in 0..MaxTail : scansStarted = 0 /\ StartScan(requested)
    \/ \E n \in 1..(6 * MaxLines + 2) : ScanData(n)
    \/ ScanEnd

\* the session log of the concrete scenario: three output events, a clear
\* sequence inside the payload of the second, then two more output events
ScenarioLines == <<OutputLine, ClearLine, OutputLine, OutputLine, OutputLine>>

\* the scenario's log, with or without a newline after its last line, and a
\* session record or none
InitScenario ==
    /\ recording \in { RecordingOf(ScenarioLines, term) : term \in BOOLEAN }
    /\ sessionInfo \in {<<>>, <<0>>}
    /\ scan = IdleScanLocals
    /\ scansStarted = 0

\* the joins of the scenario ask for ScenarioTailLines lines
NextScenario ==
    \/ StartScan(ScenarioTailLines)
    \/ \E n \in 1..(6 * MaxLines + 2) : ScanData(n)
    \/ ScanEnd

NextScan ==
    \/ \E requested \in TailRequests : StartScan(requested)
    \/ \E n \in 1..(6 * MaxLines + 2) : ScanData(n)
    \/ ScanEnd

(***************************************************************************)
(* BufferAggregator: one local subscribe, its join frames and live frames  *)
(***************************************************************************)
\* an encode task: the initial snapshot of the join, or the k-th buffer change
InitialTask == <<"initial", 0>>
LiveTask(k) == <<"live", k>>

\* constructor and handleClientConnection: an open socket, no subscription
InitLive ==
    /\ liveConn = "open"
    /\ joinPc = "idle"
    /\ listening = FALSE
    /\ changes = 0
    /\ encQueue = <<>>
    /\ encRunning = {}
    /\ liveSent = <<>>

\* the join at rest while another subsystem runs
IdleLive == InitLive

\* processQueue() of the pool the encode tasks run on: the first queued task goes
\* to a free worker, if there is one
Dispatch(q, running) ==
    IF q = <<>> \/ Cardinality(running) >= LiveWorkers
    THEN [queue |-> q, running |-> running]
    ELSE [queue |-> Tail(q), running |-> running \cup {Head(q)}]

\* terminalManager.encodeSnapshot(sessionId, snapshot): runTask queues the task
\* and calls processQueue
SubmitEncode(task) ==
    LET d == Dispatch(Append(encQueue, task), encRunning) IN
    /\ encQueue' = d.queue
    /\ encRunning' = d.running

\* handleWorkerMessage: the worker is free again and processQueue is called
FinishEncode(task) ==
    LET d == Dispatch(encQueue, encRunning \ {task}) IN
    /\ encQueue' = d.queue
    /\ encRunning' = d.running

\* clientWs.send(message) guarded by readyState === WebSocket.OPEN
LiveSendIfOpen(sent, msg) == IF liveConn = "open" THEN Append(sent, msg) ELSE sent

\* handleClientMessage 'subscribe' up to the await of subscribeToBufferChanges
JoinStart ==
    /\ liveConn = "open"
    /\ joinPc = "idle"
    /\ joinPc' = "subscribing"
    /\ UNCHANGED <<liveConn, listening, changes, encQueue, encRunning, liveSent>>
    /\ UNCHANGED NotLive

\* subscribeToBufferChanges resolved: the callback is registered, the unsubscribe
\* function stored; subscribeToLocalSession awaits getBufferSnapshot
JoinSubscribed ==
    /\ joinPc = "subscribing"
    /\ joinPc' = "snapshot"
    /\ listening' = TRUE
    /\ UNCHANGED <<liveConn, changes, encQueue, encRunning, liveSent>>
    /\ UNCHANGED NotLive

\* getBufferSnapshot resolved: the initial snapshot goes to encodeSnapshot
JoinSnapshot ==
    /\ joinPc = "snapshot"
    /\ joinPc' = "encoding"
    /\ SubmitEncode(InitialTask)
    /\ UNCHANGED <<liveConn, listening, changes, liveSent>>
    /\ UNCHANGED NotLive

\* the terminal notifies a buffer change: the callback calls encodeSnapshot
BufferChange ==
    /\ listening
    /\ changes < MaxChanges
    /\ changes' = changes + 1
    /\ SubmitEncode(LiveTask(changes + 1))
    /\ UNCHANGED <<liveConn, joinPc, listening, liveSent>>
    /\ UNCHANGED NotLive

\* encodeSnapshot of a buffer change settled: .then sends the framed buffer if the
\* socket is open, .catch logs
LiveEncoded(k, ok) ==
    /\ LiveTask(k) \in encRunning
    /\ FinishEncode(LiveTask(k))
    /\ liveSent' = IF ok THEN LiveSendIfOpen(liveSent, LiveTask(k)) ELSE liveSent
    /\ UNCHANGED <<liveConn, joinPc, listening, changes>>
    /\ UNCHANGED NotLive

\* encodeSnapshot of the initial snapshot settled: the frame is sent if the socket
\* is open and the cached history chunk awaited; on rejection the catch block
\* sends an error and handleClientMessage sends 'subscribed'
InitialEncodedLive(ok) ==
    /\ joinPc = "encoding"
    /\ InitialTask \in encRunning
    /\ FinishEncode(InitialTask)
    /\ IF ok
       THEN /\ liveSent' = LiveSendIfOpen(liveSent, InitialTask)
            /\ joinPc' = "history"
       ELSE /\ liveSent' = Append(Append(liveSent, <<"error", 0>>), <<"subscribed", 0>>)
            /\ joinPc' = "done"
    /\ UNCHANGED <<liveConn, listening, changes>>
    /\ UNCHANGED NotLive

\* sendCachedHistoryChunk after getHistoryChunk resolved, then 'subscribed'
JoinHistory(hasChunk) ==
    /\ joinPc = "history"
    /\ joinPc' = "done"
    /\ liveSent' = Append(IF hasChunk
                          THEN LiveSendIfOpen(liveSent, <<"history-chunk", 0>>)
                          ELSE liveSent,
                          <<"subscribed", 0>>)
    /\ UNCHANGED <<liveConn, listening, changes, encQueue, encRunning>>
    /\ UNCHANGED NotLive

\* the socket closes: handleClientDisconnect calls the stored unsubscribe function
LiveClose ==
    /\ liveConn = "open"
    /\ liveConn' = "closed"
    /\ listening' = IF joinPc = "subscribing" THEN listening ELSE FALSE
    /\ UNCHANGED <<joinPc, changes, encQueue, encRunning, liveSent>>
    /\ UNCHANGED NotLive

NextLive ==
    \/ JoinStart
    \/ JoinSubscribed
    \/ JoinSnapshot
    \/ BufferChange
    \/ \E k \in 1..MaxChanges, ok \in BOOLEAN : LiveEncoded(k, ok)
    \/ \E ok \in BOOLEAN : InitialEncodedLive(ok)
    \/ \E hasChunk \in BOOLEAN : JoinHistory(hasChunk)
    \/ LiveClose

(***************************************************************************)
(* Event-stream router: connections capped per client key (routes/events.ts)*)
(***************************************************************************)
Conns == 1..MaxConns
Keys == 1..NumKeys

\* Number.parseInt(process.env.VIBETUNNEL_MAX_EVENTSTREAM_PER_KEY ?? '', 10):
\* NaN when unset or not a number, else an integer
EnvValues == {<<>>} \cup {<<n>> : n \in -1..MaxCap}

\* MAX_CONNECTIONS_PER_KEY: <<>> stands for Infinity
MaxConnectionsPerKey(env) == IF env # <<>> /\ env[1] > 0 THEN env ELSE <<>>

NoBucket == [present |-> FALSE, members |-> <<>>]

\* the capacity test with > for >=
AtCapacityStrict(bucket, max) == max # <<>> /\ Len(bucket.members) > max[1]

\* bucket.size >= MAX_CONNECTIONS_PER_KEY, with a finite maximum
AtCapacity(bucket, max) == max # <<>> /\ Len(bucket.members) >= max[1]

\* the router state the handlers read and write
SseState ==
    [clients |-> sseClients, buckets |-> clientBuckets, state |-> sseState,
     attached |-> sseAttached]

\* bucket.values().next().value with the newest member taken
OldestAsNewest(bucket) ==
    IF bucket.members = <<>> THEN 0 ELSE bucket.members[Len(bucket.members)]

\* bucket.values().next().value: the first member in insertion order, 0 for
\* undefined
Oldest(bucket) == IF bucket.members = <<>> THEN 0 ELSE Head(bucket.members)

\* cleanupClient(client) for a client the server evicts (how == "evicted") or whose
\* request closed or failed (how == "closed")
CleanupClient(st, c, how) ==
    IF c \notin st.clients THEN st
    ELSE LET k == sseKey[c]
             clients == st.clients \ {c}
             members == SeqRemove(st.buckets[k].members, c)
             bucket == IF ~st.buckets[k].present THEN st.buckets[k]
                       ELSE IF members = <<>> THEN NoBucket
                       ELSE [present |-> TRUE, members |-> members]
         IN  [clients |-> clients,
              buckets |-> [st.buckets EXCEPT ![k] = bucket],
              state |-> [st.state EXCEPT ![c] = how],
              attached |-> IF clients = {} THEN FALSE ELSE st.attached]

SetSse(st) ==
    /\ sseClients' = st.clients
    /\ clientBuckets' = st.buckets
    /\ sseState' = st.state
    /\ sseAttached' = st.attached

\* createEventsRouter(sessionMonitor): no connection; the maximum comes from the
\* environment
InitSse ==
    /\ sseEnv \in EnvValues
    /\ sseClients = {}
    /\ clientBuckets = [k \in Keys |-> NoBucket]
    /\ sseState = [c \in Conns |-> "new"]
    /\ sseKey = [c \in Conns |-> 0]
    /\ sseNext = 0
    /\ sseAttached = FALSE

\* the router at rest while another subsystem runs
IdleSse ==
    /\ sseEnv = <<>>
    /\ sseClients = {}
    /\ clientBuckets = [k \in Keys |-> NoBucket]
    /\ sseState = [c \in Conns |-> "new"]
    /\ sseKey = [c \in Conns |-> 0]
    /\ sseNext = 0
    /\ sseAttached = FALSE

\* the bucket of a key, created empty when the map has none
EnsureBucket(buckets, k) ==
    IF buckets[k].present THEN buckets
    ELSE [buckets EXCEPT ![k] = [present |-> TRUE, members |-> <<>>]]

\* what the GET /events handler leaves for connection c of key k, from state st
HandleEvents(st, c, k) ==
    LET max == MaxConnectionsPerKey(sseEnv)
        st1 == [st EXCEPT !.buckets = EnsureBucket(st.buckets, k)]
        oldest == Oldest(st1.buckets[k])
        st2 == IF AtCapacity(st1.buckets[k], max)
               THEN LET ev == IF oldest # 0 THEN CleanupClient(st1, oldest, "evicted")
                              ELSE st1
                    IN  [ev EXCEPT !.buckets = EnsureBucket(ev.buckets, k)]
               ELSE st1
    IN  IF AtCapacity(st1.buckets[k], max) /\ AtCapacity(st2.buckets[k], max)
        THEN [st2 EXCEPT !.state = [st2.state EXCEPT ![c] = "refused"]]
        ELSE [clients |-> st2.clients \cup {c},
              buckets |-> [st2.buckets EXCEPT ![k].members = Append(@, c)],
              state |-> [st2.state EXCEPT ![c] = "open"],
              attached |-> TRUE]

\* router.get('/events'): a request with client key k arrives.  res.write of the
\* connected event does not throw on a fresh response.
EventsRequest(k) ==
    /\ sseNext < MaxConns
    /\ LET c == sseNext + 1 IN
       /\ sseNext' = c
       /\ sseKey' = [sseKey EXCEPT ![c] = k]
       /\ SetSse(HandleEvents(SseState, c, k))
    /\ UNCHANGED sseEnv
    /\ UNCHANGED NotSse

\* req.on('close'): the client went away, or the close that follows an eviction
EventsClose(c) ==
    /\ sseState[c] \in {"open", "evicted"}
    /\ SetSse(LET st == CleanupClient(SseState, c, "closed")
              IN  [st EXCEPT !.state = [st.state EXCEPT ![c] = "closed"]])
    /\ UNCHANGED <<sseEnv, sseKey, sseNext>>
    /\ UNCHANGED NotSse

\* req.on('error'), or a heartbeat or broadcast write that throws
EventsError(c) ==
    /\ sseState[c] = "open"
    /\ SetSse(CleanupClient(SseState, c, "closed"))
    /\ UNCHANGED <<sseEnv, sseKey, sseNext>>
    /\ UNCHANGED NotSse

NextSse ==
    \/ \E k \in Keys : EventsRequest(k)
    \/ \E c \in Conns : EventsClose(c)
    \/ \E c \in Conns : EventsError(c)

(***************************************************************************)
(* BufferAggregator in HQ mode: sessions of one remote server              *)
(***************************************************************************)
\* the upstream WebSocket objects connectToRemote creates, in creation order
Upstreams == 1..MaxUpstreams

\* the next WebSocket object, 0 when the bound is reached
NextUpstream ==
    IF \E w \in Upstreams : wsState[w] = "none"
    THEN CHOOSE w \in Upstreams : wsState[w] = "none" /\ \A v \in 1..(w - 1) : wsState[v] # "none"
    ELSE 0

\* remoteConn && remoteConn.ws.readyState === WebSocket.OPEN
HasOpenRemote == remoteEntry # <<>> /\ wsState[remoteEntry[1]] = "open"

\* constructor with isHQMode and a registry that knows the remote: no client, no
\* upstream connection
InitHq ==
    /\ hqRegistered = {}
    /\ hqClosed = {}
    /\ hqSubs = [c \in Clients |-> {}]
    /\ remoteEntry = <<>>
    /\ wsState = [w \in Upstreams |-> "none"]
    /\ remoteSubs = [w \in Upstreams |-> {}]
    /\ hqInflight = {}

\* the HQ aggregator at rest while another subsystem runs
IdleHq == InitHq

\* handleClientConnection(ws)
HqClientConnection(c) ==
    /\ c \notin hqRegistered /\ c \notin hqClosed
    /\ hqRegistered' = hqRegistered \cup {c}
    /\ UNCHANGED <<hqClosed, hqSubs, remoteEntry, wsState, remoteSubs, hqInflight>>
    /\ UNCHANGED NotHq

\* subscribeToRemoteSession from "if (!remoteConn) return" on: add the session to
\* the subscriptions of the connection now in the map, store the client's no-op
\* unsubscribe function
AddRemoteSubscription(c, s, entry, subsNow) ==
    /\ remoteSubs' = IF entry = <<>> THEN subsNow
                     ELSE [subsNow EXCEPT ![entry[1]] = @ \cup {s}]
    /\ hqSubs' = IF entry # <<>> /\ c \in hqRegistered
                 THEN [hqSubs EXCEPT ![c] = @ \cup {s}] ELSE hqSubs

\* handleClientMessage 'subscribe' for a session of the remote, up to the await of
\* connectToRemote if there is no open connection
HqSubscribe(c, s) ==
    /\ c \in hqRegistered
    /\ IF s \in hqSubs[c]
       THEN UNCHANGED <<hqSubs, remoteSubs, wsState, hqInflight>>
       ELSE IF HasOpenRemote
       THEN /\ AddRemoteSubscription(c, s, remoteEntry, remoteSubs)
            /\ UNCHANGED <<wsState, hqInflight>>
       ELSE /\ NextUpstream # 0
            /\ wsState' = [wsState EXCEPT ![NextUpstream] = "connecting"]
            /\ hqInflight' = hqInflight \cup
                   {[kind |-> "subscribe", client |-> c, session |-> s, ws |-> NextUpstream]}
            /\ UNCHANGED <<hqSubs, remoteSubs>>
    /\ UNCHANGED <<hqRegistered, hqClosed, remoteEntry>>
    /\ UNCHANGED NotHq

\* onRemoteRegistered(remoteId) up to the await of connectToRemote
OnRemoteRegistered ==
    /\ NextUpstream # 0
    /\ wsState' = [wsState EXCEPT ![NextUpstream] = "connecting"]
    /\ hqInflight' = hqInflight \cup
           {[kind |-> "register", client |-> 0, session |-> 0, ws |-> NextUpstream]}
    /\ UNCHANGED <<hqRegistered, hqClosed, hqSubs, remoteEntry, remoteSubs>>
    /\ UNCHANGED NotHq

\* the socket's 'open' event: connectToRemote stores a new RemoteWebSocketConnection
\* under the remote id and returns true; the suspended subscribe goes on
ConnectOpened(h) ==
    /\ h \in hqInflight
    /\ wsState[h.ws] = "connecting"
    /\ wsState' = [wsState EXCEPT ![h.ws] = "open"]
    /\ remoteEntry' = <<h.ws>>
    /\ hqInflight' = hqInflight \ {h}
    /\ IF h.kind = "subscribe"
       THEN AddRemoteSubscription(h.client, h.session, <<h.ws>>,
                                  [remoteSubs EXCEPT ![h.ws] = {}])
       ELSE /\ remoteSubs' = [remoteSubs EXCEPT ![h.ws] = {}]
            /\ UNCHANGED hqSubs
    /\ UNCHANGED <<hqRegistered, hqClosed>>
    /\ UNCHANGED NotHq

\* the socket's 'error' event or the 5 s timeout: connectToRemote returns false
ConnectFailed(h) ==
    /\ h \in hqInflight
    /\ wsState[h.ws] = "connecting"
    /\ wsState' = [wsState EXCEPT ![h.ws] = "closed"]
    /\ hqInflight' = hqInflight \ {h}
    /\ UNCHANGED <<hqRegistered, hqClosed, hqSubs, remoteEntry, remoteSubs>>
    /\ UNCHANGED NotHq

\* handleClientMessage 'unsubscribe' for a session of the remote
HqUnsubscribe(c, s) ==
    /\ c \in hqRegistered
    /\ hqSubs' = [hqSubs EXCEPT ![c] = @ \ {s}]
    /\ remoteSubs' = IF remoteEntry = <<>> THEN remoteSubs
                     ELSE [remoteSubs EXCEPT ![remoteEntry[1]] = @ \ {s}]
    /\ UNCHANGED <<hqRegistered, hqClosed, remoteEntry, wsState, hqInflight>>
    /\ UNCHANGED NotHq

\* handleClientDisconnect(ws): the stored functions do nothing for remote sessions
HqClientDisconnect(c) ==
    /\ c \in hqRegistered
    /\ hqRegistered' = hqRegistered \ {c}
    /\ hqClosed' = hqClosed \cup {c}
    /\ hqSubs' = [hqSubs EXCEPT ![c] = {}]
    /\ UNCHANGED <<remoteEntry, wsState, remoteSubs, hqInflight>>
    /\ UNCHANGED NotHq

\* the 'close' event of an upstream socket that had opened: its handler deletes
\* the map entry of the remote id
UpstreamClosed(w) ==
    /\ wsState[w] \in {"open", "closing"}
    /\ wsState' = [wsState EXCEPT ![w] = "closed"]
    /\ remoteEntry' = <<>>
    /\ UNCHANGED <<hqRegistered, hqClosed, hqSubs, remoteSubs, hqInflight>>
    /\ UNCHANGED NotHq

\* onRemoteUnregistered(remoteId): close the socket in the map, delete the entry
OnRemoteUnregistered ==
    /\ remoteEntry # <<>>
    /\ wsState' = [wsState EXCEPT ![remoteEntry[1]] = IF @ = "open" THEN "closing" ELSE @]
    /\ remoteEntry' = <<>>
    /\ UNCHANGED <<hqRegistered, hqClosed, hqSubs, remoteSubs, hqInflight>>
    /\ UNCHANGED NotHq

NextHq ==
    \/ \E c \in Clients : HqClientConnection(c)
    \/ \E c \in Clients, s \in Sessions : HqSubscribe(c, s)
    \/ OnRemoteRegistered
    \/ \E h \in hqInflight : ConnectOpened(h)
    \/ \E h \in hqInflight : ConnectFailed(h)
    \/ \E c \in Clients, s \in Sessions : HqUnsubscribe(c, s)
    \/ \E c \in Clients : HqClientDisconnect(c)
    \/ \E w \in Upstreams : UpstreamClosed(w)
    \/ OnRemoteUnregistered

(***************************************************************************)
(* History chunk builder (workers/tasks/history-chunk.ts)                  *)
(***************************************************************************)
\* An event of the recording: [time, 'o' | 'r' | 'i', data], or ['exit', code, id]
\* held with kind "exit", its code as time and its id as data.
Event(time, kind, data) == [time |-> time, kind |-> kind, data |-> data]

EventCatalogue ==
    {Event(5, "o", "a"), Event(7, "o", "b"), Event(6, "r", "80x24"),
     Event(4, "i", "k"), Event(0, "exit", "id")}

EventSeqs == UNION { [1..n -> EventCatalogue] : n \in 0..MaxEvents }

\* the byte offsets of the lines of n events of 10 bytes after a header of 7
OffsetsOf(n) == [i \in 1..n |-> 7 + 10 * (i - 1)]

\* the payloads: any start indices and either value of hasMoreHistory
Payloads ==
    { [events |-> ev, eventOffsets |-> OffsetsOf(Len(ev)), baseStartIndex |-> b,
       sendStartIndex |-> s, startOffset |-> 7, fileOffset |-> 7 + 10 * Len(ev),
       initialTailLines |-> 2, hasMoreHistory |-> more, totalEvents |-> Len(ev),
       totalOutputEvents |-> Cardinality({i \in (b + 1)..Len(ev) : ev[i].kind = "o"})] :
      ev \in EventSeqs, b \in 0..MaxEvents, s \in 0..MaxEvents, more \in BOOLEAN }

\* [0, event[1], event[2]] with the timestamp kept
NormalizedEventKeepTime(event) == Event(event.time, event.kind, event.data)

\* normalizedEvent: [0, event[1], event[2]]
NormalizedEvent(event) == Event(0, event.kind, event.data)

\* the for loop of buildHistoryChunk from index i (0-based) on; acc holds
\* chunkEvents, chunkOutputEvents and exitEvent
RECURSIVE BuildLoop(_, _, _)
BuildLoop(events, i, acc) ==
    IF i >= Len(events) THEN acc
    ELSE LET event == events[i + 1] IN
         IF event.kind = "exit"
         THEN BuildLoop(events, i + 1, [acc EXCEPT !.exitEvent = <<event>>])
         ELSE IF event.kind \in {"o", "r"}
         THEN BuildLoop(events, i + 1,
                  [acc EXCEPT !.chunkEvents = Append(@, NormalizedEvent(event)),
                              !.chunkOutputEvents =
                                   IF event.kind = "o" THEN @ + 1 ELSE @])
         ELSE BuildLoop(events, i + 1, acc)

\* the test with a payload built for every call
HasChunkAlways(chunkEvents) == TRUE

\* chunkEvents.length > 0
HasChunk(chunkEvents) == Len(chunkEvents) > 0

\* array[index] ?? fallback, index 0-based
AtOr(array, index, fallback) ==
    IF index >= 0 /\ index < Len(array) THEN array[index + 1] ELSE fallback

\* previousOffset with hasMoreHistory not consulted
PreviousOffsetIgnoringFlag(hasMoreHistory, sendStartIndex, eventOffsets) ==
    IF sendStartIndex > 0 THEN AtOr(eventOffsets, sendStartIndex - 1, Null) ELSE Null

\* previousOffset: hasMoreHistory && sendStartIndex > 0
\*                   ? eventOffsets[sendStartIndex - 1] ?? null : null
PreviousOffset(hasMoreHistory, sendStartIndex, eventOffsets) ==
    IF hasMoreHistory /\ sendStartIndex > 0
    THEN AtOr(eventOffsets, sendStartIndex - 1, Null) ELSE Null

\* Math.max(totalEvents - baseStartIndex, 0)
Max(a, b) == IF a > b THEN a ELSE b

\* buildHistoryChunk(payload)
BuildHistoryChunk(payload) ==
    LET acc == BuildLoop(payload.events, payload.sendStartIndex,
                         [chunkEvents |-> <<>>, chunkOutputEvents |-> 0,
                          exitEvent |-> <<>>])
        chunkPayload ==
            [hasMore |-> payload.hasMoreHistory,
             totalEvents |-> Max(payload.totalEvents - payload.baseStartIndex, 0),
             totalOutputEvents |-> payload.totalOutputEvents,
             chunkEventCount |-> Len(acc.chunkEvents),
             chunkOutputEvents |-> acc.chunkOutputEvents,
             chunkStartOffset |-> AtOr(payload.eventOffsets, payload.sendStartIndex,
                                       payload.startOffset),
             previousOffset |-> PreviousOffset(payload.hasMoreHistory,
                                               payload.sendStartIndex,
                                               payload.eventOffsets),
             nextOffset |-> payload.fileOffset,
             initialTailLines |-> payload.initialTailLines,
             events |-> acc.chunkEvents]
    IN  [payload |-> IF HasChunk(acc.chunkEvents) THEN <<chunkPayload>> ELSE <<>>,
         chunkOutputEvents |-> acc.chunkOutputEvents,
         exitEvent |-> acc.exitEvent]

\* a task payload, not yet built
InitHc ==
    /\ hcPayload \in Payloads
    /\ hcResult = <<>>

\* the builder at rest while another subsystem runs
IdleHc ==
    /\ hcPayload = CHOOSE pl \in Payloads :
                      pl.events = <<>> /\ pl.baseStartIndex = 0
                      /\ pl.sendStartIndex = 0 /\ ~pl.hasMoreHistory
    /\ hcResult = <<>>

\* the worker runs the buildHistoryChunk task
BuildHistoryChunkTask ==
    /\ hcResult = <<>>
    /\ hcResult' = <<BuildHistoryChunk(hcPayload)>>
    /\ UNCHANGED hcPayload
    /\ UNCHANGED NotHc

NextHc == BuildHistoryChunkTask

(***************************************************************************)
(* Broadcast loops: one message written to every subscriber                *)
(* (BufferAggregator, StreamWatcher, events router)                        *)
(***************************************************************************)
BcClients == 1..NumBcClients

\* the members of a Map or Set in iteration order: clients are numbered in the
\* order they were added
RECURSIVE InsertionOrder(_)
InsertionOrder(S) ==
    IF S = {} THEN <<>>
    ELSE LET c == CHOOSE x \in S : \A y \in S : x <= y
         IN  <<c>> \o InsertionOrder(S \ {c})

\* a loop over the clients that writes the message to each; the write throws
\* for the clients in failing; catches says whether the write sits in a
\* try/catch inside the loop.  The clients written to, and whether the loop
\* was left by the exception.
RECURSIVE SendLoop(_, _, _, _)
SendLoop(order, failing, catches, delivered) ==
    IF order = <<>> THEN [delivered |-> delivered, thrown |-> FALSE]
    ELSE IF Head(order) \in failing
         THEN IF catches THEN SendLoop(Tail(order), failing, catches, delivered)
              ELSE [delivered |-> delivered, thrown |-> TRUE]
    ELSE SendLoop(Tail(order), failing, catches, delivered \cup {Head(order)})

\* what a broadcast leaves behind
BcRecord(kind, failing, result) ==
    [kind |-> kind, targets |-> bcSubscribers, failing |-> failing,
     delivered |-> result.delivered, thrown |-> result.thrown]

\* no subscriber, no broadcast yet
InitBc ==
    /\ bcSubscribers = {}
    /\ bcLast = [kind |-> "none", targets |-> {}, failing |-> {}, delivered |-> {},
                 thrown |-> FALSE]

\* the broadcast loops at rest while another subsystem runs
IdleBc == InitBc

\* a client subscribes with an open connection
BcSubscribe(c) ==
    /\ c \notin bcSubscribers
    /\ bcSubscribers' = bcSubscribers \cup {c}
    /\ UNCHANGED bcLast
    /\ UNCHANGED NotBc

\* a client disconnects and is removed from the subscribers
BcDisconnect(c) ==
    /\ c \in bcSubscribers
    /\ bcSubscribers' = bcSubscribers \ {c}
    /\ UNCHANGED bcLast
    /\ UNCHANGED NotBc

\* BufferAggregator.broadcastHistoryChunk(chunk): send inside try/catch
BroadcastHistoryChunk(failing) ==
    /\ bcSubscribers # {}
    /\ bcLast' = BcRecord("history-chunk", failing,
                          SendLoop(InsertionOrder(bcSubscribers), failing, TRUE, {}))
    /\ UNCHANGED bcSubscribers
    /\ UNCHANGED NotBc

\* BufferAggregator.forwardBufferToClients(buffer): clientWs.send(buffer) with no
\* try/catch around it
ForwardBufferToClients(failing) ==
    /\ bcSubscribers # {}
    /\ bcLast' = BcRecord("remote-frame", failing,
                          SendLoop(InsertionOrder(bcSubscribers), failing, FALSE, {}))
    /\ UNCHANGED bcSubscribers
    /\ UNCHANGED NotBc

\* StreamWatcher.broadcastLine(sessionId, line, watcherInfo): response.write
\* inside try/catch
BroadcastLine(failing) ==
    /\ bcSubscribers # {}
    /\ bcLast' = BcRecord("live-tail", failing,
                          SendLoop(InsertionOrder(bcSubscribers), failing, TRUE, {}))
    /\ UNCHANGED bcSubscribers
    /\ UNCHANGED NotBc

\* broadcastEvent(event) of the events router: over Array.from(clients), write
\* inside try/catch, cleanupClient(client) in the catch
BroadcastEvent(failing) ==
    /\ bcSubscribers # {}
    /\ bcLast' = BcRecord("sse", failing,
                          SendLoop(InsertionOrder(bcSubscribers), failing, TRUE, {}))
    /\ bcSubscribers' = bcSubscribers \ failing
    /\ UNCHANGED NotBc

NextBc ==
    \/ \E c \in BcClients : BcSubscribe(c)
    \/ \E c \in BcClients : BcDisconnect(c)
    \/ \E failing \in SUBSET bcSubscribers : BroadcastHistoryChunk(failing)
    \/ \E failing \in SUBSET bcSubscribers : ForwardBufferToClients(failing)
    \/ \E failing \in SUBSET bcSubscribers : BroadcastLine(failing)
    \/ \E failing \in SUBSET bcSubscribers : BroadcastEvent(failing)

(***************************************************************************)
(* History cache (services/history-store.ts)                               *)
(***************************************************************************)
ChunkVersions == 1..MaxChunks

\* a CachedHistoryChunk of a session; version tells its payloads apart
CachedChunk(s, v) == [sessionId |-> s, version |-> v]

\* JSON.stringify(chunk)
Stringify(chunk) == <<"json", chunk.sessionId, chunk.version>>

\* simdjsonParse(data)
Parse(data) == CachedChunk(data[2], data[3])

\* this.key(sessionId): the key of a session, kept as the session
Key(s) == s

ListenerIds == 1..NumListeners

\* the listeners registered on the emitter for eventName(s)
ListenersOf(s) ==
    {l \in ListenerIds : hsListeners[l].state = "on" /\ hsListeners[l].session = s}

\* this.emitter.emit(eventName(chunk.sessionId), chunk): each registered listener
\* is called once
Emit(calls, chunk) ==
    [l \in ListenerIds |->
        IF l \in ListenersOf(chunk.sessionId)
        THEN [calls[l] EXCEPT ![chunk.version] = @ + 1]
        ELSE calls[l]]

\* the backend createHistoryStore() returned, nothing stored, nothing read
InitHs ==
    /\ hsBackend \in {"redis", "ipc"}
    /\ hsStore = [s \in Sessions |-> <<>>]
    /\ hsLatest = [s \in Sessions |-> 0]
    /\ hsVersion = 0
    /\ hsGot = <<>>
    /\ hsListeners = [l \in ListenerIds |-> [state |-> "new", session |-> 0]]
    /\ hsChannel = <<>>
    /\ hsDue = [v \in ChunkVersions |-> {}]
    /\ hsCalls = [l \in ListenerIds |-> [v \in ChunkVersions |-> 0]]

\* the store at rest while another subsystem runs
IdleHs ==
    /\ hsBackend = "ipc"
    /\ hsStore = [s \in Sessions |-> <<>>]
    /\ hsLatest = [s \in Sessions |-> 0]
    /\ hsVersion = 0
    /\ hsGot = <<>>
    /\ hsListeners = [l \in ListenerIds |-> [state |-> "new", session |-> 0]]
    /\ hsChannel = <<>>
    /\ hsDue = [v \in ChunkVersions |-> {}]
    /\ hsCalls = [l \in ListenerIds |-> [v \in ChunkVersions |-> 0]]

\* setHistoryChunk(chunk): Redis SET key payload EX ttlSeconds and PUBLISH of the
\* payload, or chunks.set; then emitter.emit
SetHistoryChunk(s) ==
    /\ hsVersion < MaxChunks
    /\ LET chunk == CachedChunk(s, hsVersion + 1) IN
       /\ hsStore' = [hsStore EXCEPT ![Key(s)] =
                         IF hsBackend = "redis" THEN <<Stringify(chunk)>> ELSE <<chunk>>]
       /\ hsLatest' = [hsLatest EXCEPT ![s] = chunk.version]
       /\ hsVersion' = hsVersion + 1
       /\ hsChannel' = IF hsBackend = "redis" THEN Append(hsChannel, Stringify(chunk))
                       ELSE hsChannel
       /\ hsDue' = [hsDue EXCEPT ![chunk.version] = ListenersOf(s)]
       /\ hsCalls' = Emit(hsCalls, chunk)
    /\ UNCHANGED <<hsBackend, hsGot, hsListeners>>
    /\ UNCHANGED NotHs

\* subscriber.on('message'): the store's own connection is subscribed to the
\* channel it publishes on; the payload is parsed and emitted
SubscriberOnMessage ==
    /\ hsChannel # <<>>
    /\ hsChannel' = Tail(hsChannel)
    /\ hsCalls' = Emit(hsCalls, Parse(Head(hsChannel)))
    /\ UNCHANGED <<hsBackend, hsStore, hsLatest, hsVersion, hsGot, hsListeners, hsDue>>
    /\ UNCHANGED NotHs

\* subscribe(sessionId, listener): emitter.on
StoreSubscribe(l, s) ==
    /\ hsListeners[l].state = "new"
    /\ hsListeners' = [hsListeners EXCEPT ![l] = [state |-> "on", session |-> s]]
    /\ UNCHANGED <<hsBackend, hsStore, hsLatest, hsVersion, hsGot, hsChannel, hsDue,
                   hsCalls>>
    /\ UNCHANGED NotHs

\* the function subscribe returned: emitter.off
StoreUnsubscribe(l) ==
    /\ hsListeners[l].state = "on"
    /\ hsListeners' = [hsListeners EXCEPT ![l].state = "off"]
    /\ UNCHANGED <<hsBackend, hsStore, hsLatest, hsVersion, hsGot, hsChannel, hsDue,
                   hsCalls>>
    /\ UNCHANGED NotHs

\* ttlSeconds pass with no new SET of the key: Redis deletes it
KeyExpires(s) ==
    /\ hsBackend = "redis"
    /\ hsStore[Key(s)] # <<>>
    /\ hsStore' = [hsStore EXCEPT ![Key(s)] = <<>>]
    /\ UNCHANGED <<hsBackend, hsLatest, hsVersion, hsGot, hsListeners, hsChannel, hsDue,
                   hsCalls>>
    /\ UNCHANGED NotHs

\* getHistoryChunk(sessionId): null (<<>>) or the chunk
GetHistoryChunk(s) ==
    /\ LET data == hsStore[Key(s)] IN
       hsGot' = <<[sessionId |-> s,
                   result |-> IF data = <<>> THEN <<>>
                              ELSE IF hsBackend = "redis" THEN <<Parse(data[1])>>
                              ELSE data]>>
    /\ UNCHANGED <<hsBackend, hsStore, hsLatest, hsVersion, hsListeners, hsChannel, hsDue,
                   hsCalls>>
    /\ UNCHANGED NotHs

NextHs ==
    \/ \E s \in Sessions : SetHistoryChunk(s)
    \/ \E s \in Sessions : KeyExpires(s)
    \/ \E s \in Sessions : GetHistoryChunk(s)
    \/ SubscriberOnMessage
    \/ \E l \in ListenerIds, s \in Sessions : StoreSubscribe(l, s)
    \/ \E l \in ListenerIds : StoreUnsubscribe(l)

(***************************************************************************)
(* StreamWatcher: live tailing next to the join-time replay                *)
(* (addClient, startWatching, broadcastLine)                               *)
(***************************************************************************)
TailClients == 1..NumTailClients

InputPrefix == Tok("i", 4)          \* [1,"i","
InputLine == <<InputPrefix, Text, Close>>

\* the event lines the session appends while clients watch
TailCatalogue == {OutputLine, InputLine, ResizeLine, ExitLine}

\* activeWatchers.get(sessionId) before the first client
NoTailInfo ==
    [present |-> FALSE, clients |-> {}, lastOffset |-> 0, lastSize |-> 0,
     lastMtime |-> 0, lineBuffer |-> <<>>]

\* a sendExistingContent call that was never made
NoTailScan == [pc |-> "none", requested |-> 0, header |-> FALSE, data |-> <<>>,
               replayed |-> {}]

\* the recording ends with a complete line
EndsWithNewline(file) == file # <<>> /\ file[Len(file)] = Newline

\* a write to a client's response: replay writes carry no offset
ReplayWrite(kind) == [src |-> "replay", kind |-> kind, at |-> Null]
LiveWrite(kind, at) == [src |-> "live", kind |-> kind, at |-> at]

\* response.end() was called
Ended(out) == \E i \in 1..Len(out) : out[i].kind \in {"end", "live-end"}

\* response.write(...) of each of writes in order; nothing reaches an ended
\* response
RECURSIVE WriteTo(_, _)
WriteTo(out, writes) ==
    IF writes = <<>> THEN out
    ELSE WriteTo(IF Ended(out) THEN out ELSE Append(out, Head(writes)), Tail(writes))

\* lineBuffer.split('\n') with the last piece popped: the complete lines that
\* are not blank, each with the byte offset of its start, and the piece kept
RECURSIVE CompleteLines(_, _)
CompleteLines(buffer, at) ==
    LET index == IndexOfNewline(buffer) IN
    IF index = 0 THEN [lines |-> <<>>, rest |-> buffer]
    ELSE LET line == SubSeq(buffer, 1, index - 1)
             more == CompleteLines(SubSeq(buffer, index + 1, Len(buffer)),
                                at + ByteLength(line) + 1)
         IN [lines |-> (IF line = <<>> THEN <<>> ELSE <<[line |-> line, at |-> at]>>)
                       \o more.lines,
             rest |-> more.rest]

\* broadcastLine(sessionId, line, watcherInfo): what is written to each client
BroadcastLineWrites(line, at) ==
    LET parsed == ParseLine(line) IN
    IF parsed.kind = "invalid" THEN <<LiveWrite("raw", at)>>
    ELSE IF parsed.kind \in {"header", "blank"} THEN <<>>
    ELSE IF parsed.kind = "exit" THEN <<LiveWrite("exit", at), LiveWrite("live-end", at)>>
    ELSE <<LiveWrite(parsed.kind, at)>>

RECURSIVE BroadcastLines(_)
BroadcastLines(lines) ==
    IF lines = <<>> THEN <<>>
    ELSE BroadcastLineWrites(Head(lines).line, Head(lines).at) \o BroadcastLines(Tail(lines))

\* the fs.watch callback with the new data read and lastOffset left as it was
ReadNewDataKeepOffset(info, file, mtime) ==
    LET size == ByteLength(file) IN
    IF ~(size > info.lastSize \/ mtime > info.lastMtime)
    THEN [info |-> info, read |-> <<>>, writes |-> <<>>]
    ELSE LET info1 == [info EXCEPT !.lastSize = size, !.lastMtime = mtime] IN
         IF ~(size > info.lastOffset)
         THEN [info |-> info1, read |-> <<>>, writes |-> <<>>]
         ELSE LET newData == ReadFrom(file, info.lastOffset)
                  split == CompleteLines(info.lineBuffer \o newData,
                                      info.lastOffset - ByteLength(info.lineBuffer))
              IN [info |-> [info1 EXCEPT !.lineBuffer = split.rest],
                  read |-> << <<info.lastOffset, size>> >>,
                  writes |-> BroadcastLines(split.lines)]

\* the fs.watch 'change' callback of startWatching: the watcher's new fields, the
\* byte range read and the writes broadcast to every client
ReadNewData(info, file, mtime) ==
    LET size == ByteLength(file) IN
    IF ~(size > info.lastSize \/ mtime > info.lastMtime)
    THEN [info |-> info, read |-> <<>>, writes |-> <<>>]
    ELSE LET info1 == [info EXCEPT !.lastSize = size, !.lastMtime = mtime] IN
         IF ~(size > info.lastOffset)
         THEN [info |-> info1, read |-> <<>>, writes |-> <<>>]
         ELSE LET newData == ReadFrom(file, info.lastOffset)
                  split == CompleteLines(info.lineBuffer \o newData,
                                      info.lastOffset - ByteLength(info.lineBuffer))
              IN [info |-> [info1 EXCEPT !.lastOffset = size,
                                         !.lineBuffer = split.rest],
                  read |-> << <<info.lastOffset, size>> >>,
                  writes |-> BroadcastLines(split.lines)]

\* the 'end' handler of sendExistingContent applied to the text the stream read
ReplayOf(sc) ==
    FinishScan(FinalLine(DrainLines(
        [IdleScanLocals EXCEPT !.pc = "reading",
                               !.requested = sc.requested,
                               !.initialTailLines = InitialTailLines(sc.requested),
                               !.header = sc.header,
                               !.lineBuffer = sc.data])))

\* the offsets of the event lines a finished replay delivered: from the tail's
\* start index, or from the base index on the legacy path
ReplayedOffsets(st) ==
    LET from == IF st.chunk.sent
                THEN TailStart(st.events, Len(st.events) - 1, st.baseStartIndex, 0,
                               st.initialTailLines)
                ELSE st.baseStartIndex
    IN {st.eventOffsets[i] : i \in {j \in (from + 1)..Len(st.events) :
                                       st.events[j].kind \in {"o", "r", "exit"}}}

\* a session whose recording holds its header and some lines, not yet watched
InitLt ==
    /\ ltFile \in { RecordingOf(ls, TRUE) :
                      ls \in {<<>>, <<OutputLine>>} }
    /\ ltMtime = 1
    /\ ltInfo = NoTailInfo
    /\ ltScan = [c \in TailClients |-> NoTailScan]
    /\ ltOut = [c \in TailClients |-> <<>>]
    /\ ltReads = <<>>
    /\ ltIdleSeen = FALSE

\* no stream client while another subsystem runs
IdleLt ==
    /\ ltFile = <<HeaderTok, Newline>>
    /\ ltMtime = 1
    /\ ltInfo = NoTailInfo
    /\ ltScan = [c \in TailClients |-> NoTailScan]
    /\ ltOut = [c \in TailClients |-> <<>>]
    /\ ltReads = <<>>
    /\ ltIdleSeen = FALSE

\* the session appends to its recording: a line with its newline, or an output
\* line and its newline in two writes
AppendToFile(tokens) ==
    /\ ltMtime <= MaxTailWrites
    /\ \/ EndsWithNewline(ltFile) /\ tokens # <<Newline>>
       \/ ~EndsWithNewline(ltFile) /\ tokens = <<Newline>>
    /\ ltFile' = ltFile \o tokens
    /\ ltMtime' = ltMtime + 1
    /\ UNCHANGED <<ltInfo, ltScan, ltOut, ltReads, ltIdleSeen>>
    /\ UNCHANGED NotLt

\* the file's mtime changes and its size does not
TouchFile ==
    /\ ltMtime <= MaxTailWrites
    /\ ltMtime' = ltMtime + 1
    /\ UNCHANGED <<ltFile, ltInfo, ltScan, ltOut, ltReads, ltIdleSeen>>
    /\ UNCHANGED NotLt

\* addClient(sessionId, streamPath, response, options): the first client creates
\* the watcher info, starts its replay, takes the file's size as lastOffset and
\* starts watching; a later client starts its replay; the client joins the set
AddTailClient(c, requested) ==
    /\ ltScan[c].pc = "none"
    /\ ltScan' = [ltScan EXCEPT ![c] =
                     [pc |-> "opened", requested |-> requested,
                      header |-> (IndexOfNewline(ltFile) # 0 /\ ltFile[1] = HeaderTok),
                      data |-> <<>>, replayed |-> {}]]
    /\ ltInfo' = IF ltInfo.present
                 THEN [ltInfo EXCEPT !.clients = @ \cup {c}]
                 ELSE [present |-> TRUE, clients |-> {c},
                       lastOffset |-> ByteLength(ltFile),
                       lastSize |-> ByteLength(ltFile),
                       lastMtime |-> ltMtime, lineBuffer |-> <<>>]
    /\ UNCHANGED <<ltFile, ltMtime, ltOut, ltReads, ltIdleSeen>>
    /\ UNCHANGED NotLt

\* analysisStream 'data': the stream reads the file as it is by then
TailScanData(c) ==
    /\ ltScan[c].pc = "opened"
    /\ ltScan' = [ltScan EXCEPT ![c].pc = "read", ![c].data = ltFile]
    /\ UNCHANGED <<ltFile, ltMtime, ltInfo, ltOut, ltReads, ltIdleSeen>>
    /\ UNCHANGED NotLt

\* analysisStream 'end': the header and the replay are written to the client
TailScanEnd(c) ==
    /\ ltScan[c].pc = "read"
    /\ LET st == ReplayOf(ltScan[c]) IN
       /\ ltScan' = [ltScan EXCEPT
                        ![c].pc = "done",
                        ![c].replayed = IF Ended(ltOut[c]) THEN {} ELSE ReplayedOffsets(st)]
       /\ ltOut' = [ltOut EXCEPT ![c] =
                       WriteTo(@, [i \in 1..Len(st.written) |-> ReplayWrite(st.written[i])])]
    /\ UNCHANGED <<ltFile, ltMtime, ltInfo, ltReads, ltIdleSeen>>
    /\ UNCHANGED NotLt

\* the fs.watch callback with eventType 'change'; the watcher may call it at any
\* time
FileChange ==
    /\ ltInfo.present
    /\ LET r == ReadNewData(ltInfo, ltFile, ltMtime) IN
       /\ ltInfo' = r.info
       /\ ltReads' = ltReads \o r.read
       /\ ltOut' = [c \in TailClients |->
                       IF c \in ltInfo.clients THEN WriteTo(ltOut[c], r.writes)
                       ELSE ltOut[c]]
       /\ ltIdleSeen' = (ltIdleSeen \/ r.read = <<>>)
    /\ UNCHANGED <<ltFile, ltMtime, ltScan>>
    /\ UNCHANGED NotLt

NextLt ==
    \/ \E l \in TailCatalogue : AppendToFile(l \o <<Newline>>)
    \/ AppendToFile(OutputLine)
    \/ AppendToFile(<<Newline>>)
    \/ TouchFile
    \/ \E c \in TailClients, requested \in 0..1 : AddTailClient(c, requested)
    \/ \E c \in TailClients : TailScanData(c)
    \/ \E c \in TailClients : TailScanEnd(c)
    \/ FileChange

(***************************************************************************)
(* Specifications: one per subsystem, the others idle                      *)
(***************************************************************************)
InitPool ==
    /\ \E n \in 0..PoolSize : ConstructPool(n)
    /\ InitAggVars /\ IdleEnc /\ IdleWatch /\ IdleScan /\ IdleLive /\ IdleSse /\ IdleHq /\ IdleHc /\ IdleBc /\ IdleHs /\ IdleLt
SpecPool == InitPool /\ [][NextPool]_vars

InitAgg == InitAggVars /\ ConstructPool(PoolSize) /\ IdleEnc /\ IdleWatch /\ IdleScan /\ IdleLive /\ IdleSse /\ IdleHq /\ IdleHc /\ IdleBc /\ IdleHs /\ IdleLt
\* A busy worker thread that stays alive answers its task; the 'exit' of a thread
\* that raised 'error' or was terminated arrives; destroy() resumes after its await.
ThreadExits == \E w \in WrapperIds : (life[w] = "errored" \/ w \in destroying) /\ WorkerExit(w)
FairPool ==
    /\ WF_vars(\E w \in WrapperIds : WorkerMessage(w))
    /\ WF_vars(ThreadExits)
    /\ WF_vars(DestroyEnd)
SpecPoolFair == SpecPool /\ FairPool

SpecAgg == InitAgg /\ [][NextAgg]_vars

InitEncoder == InitEnc /\ ConstructPool(PoolSize) /\ InitAggVars /\ IdleWatch /\ IdleScan /\ IdleLive /\ IdleSse /\ IdleHq /\ IdleHc /\ IdleBc /\ IdleHs /\ IdleLt
SpecEnc == InitEncoder /\ [][NextEnc]_vars
InitEncoderTwice == InitEncTwice /\ ConstructPool(PoolSize) /\ InitAggVars /\ IdleWatch /\ IdleScan /\ IdleLive /\ IdleSse /\ IdleHq /\ IdleHc /\ IdleBc /\ IdleHs /\ IdleLt
SpecEncTwice == InitEncoderTwice /\ [][NextEncTwice]_vars

InitWatcher == InitWatch /\ ConstructPool(PoolSize) /\ InitAggVars /\ IdleEnc /\ IdleScan /\ IdleLive /\ IdleSse /\ IdleHq /\ IdleHc /\ IdleBc /\ IdleHs /\ IdleLt
SpecWatch == InitWatcher /\ [][NextWatch]_vars

InitScanner == InitScan /\ ConstructPool(PoolSize) /\ InitAggVars /\ IdleEnc /\ IdleWatch /\ IdleLive /\ IdleSse /\ IdleHq /\ IdleHc /\ IdleBc /\ IdleHs /\ IdleLt
SpecScan == InitScanner /\ [][NextScan]_vars

InitJoin ==
    /\ InitLive /\ ConstructPool(PoolSize) /\ InitAggVars /\ IdleEnc /\ IdleWatch
    /\ IdleScan /\ IdleSse /\ IdleHq /\ IdleHc /\ IdleBc /\ IdleHs /\ IdleLt
SpecLive == InitJoin /\ [][NextLive]_vars

InitEvents ==
    /\ InitSse /\ ConstructPool(PoolSize) /\ InitAggVars /\ IdleEnc /\ IdleWatch
    /\ IdleScan /\ IdleLive /\ IdleHq /\ IdleHc /\ IdleBc /\ IdleHs /\ IdleLt
SpecSse == InitEvents /\ [][NextSse]_vars

InitHqMode ==
    /\ InitHq /\ ConstructPool(PoolSize) /\ InitAggVars /\ IdleEnc /\ IdleWatch
    /\ IdleScan /\ IdleLive /\ IdleSse /\ IdleHc /\ IdleBc /\ IdleHs /\ IdleLt
SpecHq == InitHqMode /\ [][NextHq]_vars

InitScenarioJoin ==
    /\ InitScenario /\ ConstructPool(PoolSize) /\ InitAggVars /\ IdleEnc /\ IdleWatch
    /\ IdleLive /\ IdleSse /\ IdleHq /\ IdleHc /\ IdleBc /\ IdleHs /\ IdleLt
SpecScenario == InitScenarioJoin /\ [][NextScenario]_vars

InitReplayJoin ==
    /\ InitReplay /\ ConstructPool(PoolSize) /\ InitAggVars /\ IdleEnc /\ IdleWatch
    /\ IdleLive /\ IdleSse /\ IdleHq /\ IdleHc /\ IdleBc /\ IdleHs /\ IdleLt
SpecReplay == InitReplayJoin /\ [][NextReplay]_vars

InitBuilder ==
    /\ InitHc /\ ConstructPool(PoolSize) /\ InitAggVars /\ IdleEnc /\ IdleWatch
    /\ IdleScan /\ IdleLive /\ IdleSse /\ IdleHq /\ IdleBc /\ IdleHs /\ IdleLt
SpecHc == InitBuilder /\ [][NextHc]_vars

(***************************************************************************)
(* Claims about the WorkerPool                                             *)

InitBroadcast ==
    /\ InitBc /\ ConstructPool(PoolSize) /\ InitAggVars /\ IdleEnc /\ IdleWatch
    /\ IdleScan /\ IdleLive /\ IdleSse /\ IdleHq /\ IdleHc /\ IdleHs /\ IdleLt
SpecBc == InitBroadcast /\ [][NextBc]_vars

InitHistoryStore ==
    /\ InitHs /\ ConstructPool(PoolSize) /\ InitAggVars /\ IdleEnc /\ IdleWatch
    /\ IdleScan /\ IdleLive /\ IdleSse /\ IdleHq /\ IdleHc /\ IdleBc /\ IdleLt
SpecHs == InitHistoryStore /\ [][NextHs]_vars

InitTail ==
    /\ InitLt /\ ConstructPool(PoolSize) /\ InitAggVars /\ IdleEnc /\ IdleWatch
    /\ IdleScan /\ IdleLive /\ IdleSse /\ IdleHq /\ IdleHc /\ IdleBc /\ IdleHs
SpecLt == InitTail /\ [][NextLt]_vars

(***************************************************************************)
\* A step in which runTask was called: it takes the next task id.
RunTaskStep == nextTaskId' = nextTaskId + 1

\* A step in which a failure event ('error', or 'exit' with a non-zero code) of
\* wrapper w was handled.
FailureStep(w) == life'[w] # life[w] /\ life'[w] \in {"errored", "dead"}

\* C7: once a worker spawn has failed the pool stays disabled with the same
\* reason; every runTask call made while it is disabled is rejected with that
\* reason and dispatches nothing; the tasks queued when the pool becomes disabled
\* are rejected with that reason.
C7_DisabledIsPermanent ==
    [][ /\ disabled =>
            /\ disabled' /\ disableReason' = disableReason
            /\ disableReason # "null"
            /\ RunTaskStep =>
                  /\ outcome'[nextTaskId'] = "rejected"
                  /\ rejectReason'[nextTaskId'] = disableReason
                  /\ queue' = queue /\ pending' = pending /\ busy' = busy
        /\ (~disabled /\ disabled') =>
            /\ queue' = <<>>
            /\ \A t \in SeqSet(queue) :
                  outcome'[t] = "rejected" /\ rejectReason'[t] = disableReason'
      ]_vars

\* C7 witness: the pool was fully constructed, a replacement spawn failed after
\* worker failure rejected task 1, and the later runTask call for task 2 was
\* rejected with the disable reason.
C7_Witness ==
    /\ disabled /\ life[PoolSize] # "none"
    /\ nextTaskId = 2
    /\ outcome[1] = "rejected" /\ rejectReason[1] = "worker error"
    /\ outcome[2] = "rejected" /\ rejectReason[2] = disableReason

\* C8: while the pool is not disabled, the failure of a worker that was running
\* a task rejects that task, removes the worker from the pool and spawns one replacement
\* (the 'exit' that follows its 'error' spawns no second one), and rejects no
\* other task.
C8_FailureIsolation ==
    [][ \A w \in WrapperIds :
          (FailureStep(w) /\ pending[w] # 0 /\ ~disabled') =>
             /\ outcome'[pending[w]] = "rejected"
             /\ w \notin SeqSet(workers')
             /\ spawned' = IF life[w] = "alive" THEN spawned + 1 ELSE spawned
             /\ \A t \in TaskIds \ {pending[w]} :
                   outcome[t] = "pending" => outcome'[t] = "pending"
      ]_vars

\* C17: every task submitted with runTask eventually has its promise settled,
\* whatever completions, crashes, spawn failures and destroy() calls occur.
C17_EveryTaskSettles ==
    \A t \in TaskIds :
        (outcome[t] = "pending") ~> (outcome[t] \in {"resolved", "rejected"})

(***************************************************************************)
(* Claims about the BufferAggregator                                       *)
(***************************************************************************)
\* the live-update callbacks registered for socket c and session s
CallbacksOf(c, s) == {r \in listeners : regOwner[r] = <<c, s>>}

\* C9: for every (client, session) pair at most one live-update callback is
\* registered at any time, however many subscribe messages the client sends and
\* however their handling interleaves.
C9_SubscribeIdempotent ==
    \A c \in Clients, s \in Sessions : Cardinality(CallbacksOf(c, s)) <= 1

\* C10: once a client connection is closed and no subscribe handler of that
\* client is still running, no live-update callback registered on its behalf
\* remains registered.
C10_DisconnectReleasesAll ==
    \A c \in Clients :
        (conn[c] = "closed" /\ ~\E h \in inflight : h.client = c)
            => \A s \in Sessions : CallbacksOf(c, s) = {}

(***************************************************************************)
(* Claims about the snapshot encoder                                       *)
(***************************************************************************)
\* the encode task has run
Encoded == encResult.status # "none"

\* the flag byte of a frame (offset 3)
FlagByte(buffer) == buffer[4]

\* the bytes a sequence of writes holds
RECURSIVE Flatten(_)
Flatten(writes) == IF writes = <<>> THEN <<>> ELSE Head(writes).bytes \o Flatten(Tail(writes))

\* two rows that show the same: equal, or both blank
RowEquivalent(r1, r2) == r1 = r2 \/ (IsBlankRow(r1) /\ IsBlankRow(r2))

\* C2: when the previous snapshot is absent or its cols, rows or viewportY differ
\* from the current snapshot's, encodeSnapshot returns usedDiff = false and a frame
\* whose diff flag is 0.
C2_FullFrameOnShapeChange ==
    (Encoded /\ ~SameDims(encCur, encPrev)) =>
        /\ encResult.status = "ok"
        /\ ~encResult.usedDiff
        /\ FlagByte(encResult.buffer) = 0

\* C3: with equal cols/rows/viewportY, when the number of changed rows is 0 or at
\* least the row count, encodeSnapshot returns a full frame carrying every row; a
\* diff frame is returned only when 0 < changed rows < row count, and its row
\* count is not zero.
C3_DiffOnlyForPartialChange ==
    (Encoded /\ SameDims(encCur, encPrev)) =>
        LET n == Len(ChangedRows(encCur.cells, encPrev[1].cells, 1)) IN
        /\ (n = 0 \/ n >= Len(encCur.cells)) =>
              /\ encResult.status = "ok"
              /\ ~encResult.usedDiff
              /\ encResult.buffer = Flatten(EncodeHeader(encCur, 0))
                                    \o Flatten(EncodeFullRows(encCur.cells))
        /\ encResult.usedDiff =>
              /\ 0 < n /\ n < Len(encCur.cells)
              /\ FlagByte(encResult.buffer) = 1
              /\ encResult.buffer[29] + 256 * encResult.buffer[30] = n

\* C4: for snapshots A (previous) and B (current) with identical cols/rows/
\* viewportY, the frame encoding B against A is produced, and decoding it onto a
\* copy of A gives B.
C4_DiffRoundTrip ==
    (Encoded /\ SameDims(encCur, encPrev)) =>
        /\ encResult.status = "ok"
        /\ LET b == DecodeAndApply(encPrev[1], encResult.buffer) IN
           \A i \in 1..Len(encCur.cells) : RowEquivalent(b.cells[i], encCur.cells[i])

(***************************************************************************)
(* Claims about the StreamWatcher                                          *)
(***************************************************************************)
\* C1: a session has an entry with a file watcher in activeWatchers exactly when
\* at least one client is attached to it, and the file watcher was created once
\* for the clients now attached and closed once for those that left.
C1_WatcherIffClients ==
    \A s \in Sessions :
        LET attached == activeWatchers[s].clients # {} IN
        /\ (activeWatchers[s].present /\ activeWatchers[s].watcher = "open") <=> attached
        /\ watchCreated[s] - watchClosed[s] = IF attached THEN 1 ELSE 0

\* the lines of a file, the last one with or without its newline
RECURSIVE SplitLines(_, _)
SplitLines(tokens, line) ==
    IF tokens = <<>> THEN (IF line = <<>> THEN <<>> ELSE <<line>>)
    ELSE IF Head(tokens).t = "nl" THEN <<line>> \o SplitLines(Tail(tokens), <<>>)
    ELSE SplitLines(Tail(tokens), Append(line, Head(tokens)))

\* the events recorded in a file, in order
FileEvents(file) ==
    LET lines == SplitLines(file, <<>>)
        parsed == [i \in 1..Len(lines) |-> ParseLine(lines[i])]
    IN  SelectSeq(parsed, LAMBDA e : e.kind \in {"o", "r", "i", "exit"})

\* the events recorded after the last output event that holds a clear sequence
EventsSinceClear(file) ==
    LET evs == FileEvents(file)
        clears == {i \in 1..Len(evs) :
                      evs[i].kind = "o" /\ ContainsPruningSequence(evs[i].data)}
        last == IF clears = {} THEN 0 ELSE CHOOSE i \in clears : \A j \in clears : j <= i
    IN  SubSeq(evs, last + 1, Len(evs))

OutputsSinceClear(file) == CountOutputs(EventsSinceClear(file), 0)

\* the clear sequences in a file, as token positions
ClearPositions(file) == {i \in 1..Len(file) : file[i].t = "clear"}

\* the byte offset at which the clear sequence of a file with just one ends
ClearOffsetOf(file) ==
    ByteLength(SubSeq(file, 1, CHOOSE i \in ClearPositions(file) : TRUE))

ScanDone == scan.pc = "done"

\* C5 as stated: a join requesting N > 0 lines on a recording with at least N
\* output events since the last clear gets a chunk of exactly N output events
\* with hasMore = true; with fewer than N it gets all of them with hasMore = false.
C5_TailBound ==
    (ScanDone /\ scan.requested > 0) =>
        LET m == OutputsSinceClear(recording) IN
        /\ m >= scan.requested =>
              /\ scan.chunk.sent
              /\ scan.chunk.chunkOutputEvents = scan.requested
              /\ scan.chunk.hasMore
        /\ m < scan.requested =>
              /\ scan.chunk.chunkOutputEvents = m
              /\ ~scan.chunk.hasMore

\* C5 amended: with n = min(N, 5000), a chunk is sent exactly when some event
\* follows the last clear; it holds min(m, n) output events; hasMore is true
\* with more than n output events since the clear, false with fewer, and with
\* exactly n it is true only when another event precedes the first of them.
C5_TailBoundClamped ==
    (ScanDone /\ scan.requested > 0) =>
        LET n == Min(scan.requested, MAX_INITIAL_TAIL_LINES)
            since == EventsSinceClear(recording)
            m == OutputsSinceClear(recording)
        IN  /\ scan.chunk.sent <=> Len(since) > 0
            /\ scan.chunk.sent =>
                  /\ scan.chunk.chunkOutputEvents = Min(m, n)
                  /\ scan.chunk.initialTailLines = n
                  /\ m > n => scan.chunk.hasMore
                  /\ m < n => ~scan.chunk.hasMore
                  /\ m = n => (scan.chunk.hasMore <=> ~IsOutputEvent(since[1]))

\* C5 witness: a join asking for 2 lines of a recording with one clear and exactly
\* 2 output events after it got both, with hasMore = false.
C5_Witness ==
    /\ ScanDone /\ scan.requested = 2
    /\ Cardinality(ClearPositions(recording)) = 1
    /\ OutputsSinceClear(recording) = 2
    /\ scan.chunk.sent /\ scan.chunk.chunkOutputEvents = 2 /\ ~scan.chunk.hasMore

\* C6: for a recording with exactly one clear sequence, ending at byte offset K,
\* every finished join-time scan has lastClearOffset = K, whatever offset it
\* started from and however the reads were chunked.
C6_PruningIdempotent ==
    (ScanDone /\ Cardinality(ClearPositions(recording)) = 1) =>
        scan.lastClearOffset = ClearOffsetOf(recording)

(***************************************************************************)
(* Claims about the join and the live frames of a local subscribe          *)
(***************************************************************************)
IsLiveFrame(msg) == msg[1] = "live"
IsJoinFrame(msg) == msg[1] \in {"initial", "history-chunk"}

\* C11: for one local subscribe, the initial full frame and the cached history
\* chunk are sent before any live-update frame of that subscription.
C11_JoinBeforeLive ==
    \A i, j \in 1..Len(liveSent) :
        (IsLiveFrame(liveSent[i]) /\ IsJoinFrame(liveSent[j])) => j < i

\* C12: the live frames of a session reach the client in the order of the buffer
\* changes they encode.
C12_LiveFramesInOrder ==
    \A i, j \in 1..Len(liveSent) :
        (IsLiveFrame(liveSent[i]) /\ IsLiveFrame(liveSent[j]) /\ i < j)
            => liveSent[i][2] < liveSent[j][2]

(***************************************************************************)
(* Claims about the event-stream router                                    *)
(***************************************************************************)
\* the open connections of a key
OpenOf(k) == {c \in Conns : sseState[c] = "open" /\ sseKey[c] = k}

CapOf == MaxConnectionsPerKey(sseEnv)

\* a step in which connection c arrives
Arrives(c) == sseState[c] = "new" /\ sseState'[c] # "new"

\* C13: with a positive cap, the open connections registered for a key are never
\* more than the cap (and they are exactly the members of its bucket); with the
\* cap unset or <= 0 no connection is ever evicted or refused.
C13_PerKeyCap ==
    /\ [](\A k \in Keys :
            /\ OpenOf(k) = SeqSet(clientBuckets[k].members)
            /\ OpenOf(k) \subseteq sseClients
            /\ CapOf # <<>> => Cardinality(OpenOf(k)) <= CapOf[1])
    /\ [][CapOf = <<>> =>
            \A c \in Conns : sseState'[c] \notin {"evicted", "refused"}]_vars

\* C13 witness: under a cap of 2 a key holds 2 open connections after one of its
\* connections was evicted.
C13_Witness ==
    /\ CapOf = <<2>>
    /\ \E k \in Keys :
          /\ Cardinality(OpenOf(k)) = 2
          /\ \E c \in Conns : sseState[c] = "evicted" /\ sseKey[c] = k

\* C14: when a connection arrives for a key whose bucket is at the cap, the open
\* connection of that key admitted earliest is closed and removed, all others
\* stay, and the new connection is admitted; a connection is refused only if the
\* bucket is still at capacity after the eviction.
C14_EvictOldest ==
    [][\A c \in Conns : Arrives(c) =>
          LET k == sseKey'[c]
              open == OpenOf(k)
              atCap == CapOf # <<>> /\ Cardinality(open) >= CapOf[1]
              first == CHOOSE o \in open : \A x \in open : o <= x
          IN  /\ atCap =>
                    /\ sseState'[first] = "evicted"
                    /\ first \notin sseClients'
                    /\ SeqSet(clientBuckets'[k].members) = (open \ {first}) \cup {c}
                    /\ sseState'[c] = "open"
              /\ ~atCap =>
                    /\ sseState'[c] = "open"
                    /\ SeqSet(clientBuckets'[k].members) = open \cup {c}
              /\ sseState'[c] = "refused" =>
                    (atCap /\ Cardinality(open \ {first}) >= CapOf[1])]_vars

\* C14 witness: under a cap of 1 a connection was evicted for a later one of the
\* same key, which is open.
C14_Witness ==
    /\ CapOf = <<1>>
    /\ \E c, d \in Conns :
          /\ c < d /\ sseKey[c] = sseKey[d]
          /\ sseState[c] = "evicted" /\ sseState[d] = "open"

(***************************************************************************)
(* Claims about the HQ mode of the BufferAggregator                        *)
(***************************************************************************)
\* the sessions subscribed on the upstream connection the aggregator uses
UpstreamSubscribed == IF remoteEntry = <<>> THEN {} ELSE remoteSubs[remoteEntry[1]]

\* C15: while an upstream connection is open and no connect is pending, a remote
\* session is in its subscription set if and only if at least one connected client
\* is subscribed to it.
C15_RemoteRefCount ==
    (HasOpenRemote /\ hqInflight = {}) =>
        \A s \in Sessions :
            s \in UpstreamSubscribed <=> (\E c \in hqRegistered : s \in hqSubs[c])

\* C16: at most one upstream socket of the remote is open at any time, and the
\* close of a socket that is not the one in the map leaves the map entry alone.
C16_SingleUpstream ==
    /\ [](Cardinality({w \in Upstreams : wsState[w] = "open"}) <= 1)
    /\ [][\A w \in Upstreams :
            (wsState[w] # "closed" /\ wsState'[w] = "closed"
                /\ remoteEntry # <<>> /\ remoteEntry[1] # w)
            => remoteEntry' = remoteEntry]_vars

(***************************************************************************)
(* Claims about the history chunk builder                                  *)
(***************************************************************************)
Built == hcResult # <<>>

\* the events of the payload at indices >= sendStartIndex (0-based)
InRange == SubSeq(hcPayload.events, hcPayload.sendStartIndex + 1, Len(hcPayload.events))

\* the output and resize events in range, in order
Replayable == SelectSeq(InRange, LAMBDA e : e.kind \in {"o", "r"})

\* the events of the chunk body, none if the payload is null
BodyOf(result) == IF result.payload = <<>> THEN <<>> ELSE result.payload[1].events

\* C18: the chunk events are exactly the output and resize events at indices >=
\* sendStartIndex, in their order, each with timestamp 0; no input or exit event
\* is in the body; an exit event in range is returned as exitEvent.
C18_ChunkBody ==
    Built =>
        LET body == BodyOf(hcResult[1]) IN
        /\ Len(body) = Len(Replayable)
        /\ \A i \in 1..Len(body) :
              /\ body[i].time = 0
              /\ body[i].kind = Replayable[i].kind
              /\ body[i].data = Replayable[i].data
        /\ \A i \in 1..Len(body) : body[i].kind \notin {"i", "exit"}
        /\ (\E i \in 1..Len(InRange) : InRange[i].kind = "exit")
              <=> hcResult[1].exitEvent # <<>>
        /\ hcResult[1].exitEvent # <<>> => hcResult[1].exitEvent[1].kind = "exit"

\* C18 witness: after sendStartIndex > 0 the slice holds an input event, an exit
\* event and an output or resize event with a non-zero timestamp; the body holds
\* the replayable events only and the exit event is returned apart.
C18_Witness ==
    /\ Built
    /\ hcPayload.sendStartIndex > 0
    /\ \E i \in 1..Len(InRange) : InRange[i].kind = "i"
    /\ \E i \in 1..Len(InRange) : InRange[i].kind = "exit"
    /\ \E i \in 1..Len(InRange) : InRange[i].kind \in {"o", "r"} /\ InRange[i].time # 0
    /\ Len(BodyOf(hcResult[1])) >= 1
    /\ hcResult[1].exitEvent # <<>>

\* C19: the payload is null, never a payload with an empty events list, whenever
\* no output or resize event lies at an index >= sendStartIndex.
C19_NullWhenNothingQualifies ==
    Built =>
        /\ Replayable = <<>> => hcResult[1].payload = <<>>
        /\ hcResult[1].payload # <<>> => hcResult[1].payload[1].events # <<>>

\* C19 witness: only an exit event lies in range; the payload is null and the exit
\* event is returned.
C19_Witness ==
    /\ Built
    /\ InRange # <<>> /\ Replayable = <<>>
    /\ hcResult[1].payload = <<>>
    /\ hcResult[1].exitEvent # <<>>

ScenarioJoined ==
    /\ ScanDone
    /\ recording \in { RecordingOf(ScenarioLines, term) : term \in BOOLEAN }
    /\ scan.requested = ScenarioTailLines

\* C21 as stated: the joiner of the scenario gets baseStartIndex just after the
\* clear, totalOutputEvents = 2 and both post-clear events with timestamp 0.
C21_ScenarioTwoEvents ==
    ScenarioJoined =>
        /\ scan.chunk.sent
        /\ scan.startOffset = 0 => scan.baseStartIndex = 2
        /\ scan.chunk.totalOutputEvents = 2
        /\ Len(scan.chunk.events) = 2
        /\ \A i \in 1..Len(scan.chunk.events) : scan.chunk.events[i].time = 0

\* C21 amended: the clear lies in the second of five output events, so three
\* follow it: a scan from the start has baseStartIndex = 2, and every joiner gets
\* totalOutputEvents = 3 and the three post-clear output events with timestamp 0,
\* with hasMore = false.
C21_ScenarioThreeEvents ==
    ScenarioJoined =>
        /\ scan.chunk.sent
        /\ scan.startOffset = 0 => scan.baseStartIndex = 2
        /\ scan.chunk.totalOutputEvents = 3
        /\ scan.chunk.totalEvents = 3
        /\ scan.chunk.chunkOutputEvents = 3
        /\ ~scan.chunk.hasMore
        /\ Len(scan.chunk.events) = 3
        /\ \A i \in 1..Len(scan.chunk.events) :
              scan.chunk.events[i].time = 0 /\ scan.chunk.events[i].kind = "o"

\* C21 witness: a join of the scenario that scanned the log from its start, past
\* the clear in the second event, has finished.
C21_Witness ==
    /\ ScenarioJoined
    /\ scan.startOffset = 0
    /\ scan.lastClearIndex = 1
    /\ Len(scan.events) = 5
    /\ scan.chunk.sent

\* the resize event in effect at the last clear of a file, as the offset of its
\* line: the last resize line before the last clear sequence, Null if none
ResizeAtLastClear(file) ==
    IF ClearPositions(file) = {} THEN Null
    ELSE LET p == CHOOSE i \in ClearPositions(file) : \A j \in ClearPositions(file) : j <= i
             rs == {q \in 1..(p - 1) : file[q].t = "r"}
         IN  IF rs = {} THEN Null
             ELSE ByteLength(SubSeq(file, 1, (CHOOSE q \in rs : \A j \in rs : j <= q) - 1))

\* C22: the header sent to a joiner carries the width and height of the most
\* recent resize event preceding the last clear of the recording, when there is
\* one, and the original geometry otherwise; for every joiner, also one whose
\* scan starts from a persisted clear offset.
C22_HeaderGeometryAtClear ==
    (ScanDone /\ scan.header) =>
        LET expected == ResizeAtLastClear(recording) IN
        IF expected # Null
        THEN scan.written[1] = "header-resized" /\ scan.lastResizeBeforeClear = expected
        ELSE scan.written[1] = "header"

\* the index the replay of a finished join started from: sendStartIndex of the
\* tail branch, baseStartIndex of the legacy branch
ReplayStart ==
    IF scan.chunk.sent
    THEN TailStart(scan.events, Len(scan.events) - 1, scan.baseStartIndex, 0,
                   scan.initialTailLines)
    ELSE scan.baseStartIndex

\* C23: if an exit event lies in the replayed range, it is the last message
\* written to the client and the stream is closed right after it, in the tail
\* branch and in the legacy branch.
C23_ExitSentLast ==
    (ScanDone /\ HasExitEvent(scan.events, ReplayStart)) =>
        LET w == scan.written IN
        /\ Len(w) >= 2
        /\ w[Len(w) - 1] = "exit"
        /\ w[Len(w)] = "end"

\* the lines of a file that hold an event: not the header line, not blank, not
\* malformed
EventLinesOf(file) ==
    SelectSeq(SplitLines(file, <<>>),
              LAMBDA l : l # <<>> /\ l # <<HeaderTok>> /\ l # MalformedLine)

\* C24: a malformed line contributes no event and never aborts the scan: the
\* events of a finished scan are those of the well-formed event lines, in
\* order, also the ones after a malformed line, and the legacy replay writes
\* every one of them.
C24_MalformedSkipped ==
    (ScanDone /\ scan.startOffset = 0) =>
        LET wf == EventLinesOf(recording) IN
        /\ Len(scan.events) = Len(wf)
        /\ \A i \in 1..Len(wf) : scan.events[i].kind = wf[i][1].t
        /\ scan.requested = 0 =>
              scan.written = <<"header">> \o [i \in 1..Len(wf) |-> wf[i][1].t]
                                 \o (IF \E i \in 1..Len(wf) : wf[i] = ExitLine
                                     THEN <<"end">> ELSE <<>>)

\* C24 witness: a log with a malformed line followed by an output line was
\* scanned to its end and the output event after the malformed line replayed.
C24_Witness ==
    /\ ScanDone /\ scan.requested = 0
    /\ LET lines == SplitLines(recording, <<>>) IN
       \E i, j \in 1..Len(lines) :
           i < j /\ lines[i] = MalformedLine /\ lines[j] = OutputLine
    /\ \E i \in 1..Len(scan.written) : scan.written[i] = "o"

(***************************************************************************)
(* Claims about the broadcast loops                                        *)
(***************************************************************************)
\* C25: a failed write to one client during a broadcast never keeps the message
\* from another subscriber: every other subscriber with an open connection
\* receives it, whichever broadcast it is.
C25_WriteFailureIsolated ==
    bcLast.kind # "none" =>
        \A c \in bcLast.targets \ bcLast.failing : c \in bcLast.delivered

(***************************************************************************)
(* Claims about the order and the ownership of the pool's tasks            *)
(***************************************************************************)
\* a step hands a task to worker w
HandsTask(w) == pending'[w] # 0 /\ pending'[w] # pending[w]

\* the tasks of the queue in the order of their submission (task ids are given
\* in the order of the runTask calls)
QueueInOrder == \A i, j \in 1..Len(queue) : i < j => queue[i] < queue[j]

\* the task handed over was submitted before every task still waiting
OldestFirst ==
    \A w \in WrapperIds :
        HandsTask(w) => \A i \in 1..Len(queue') : pending'[w] < queue'[i]

\* C26: tasks are dispatched in FIFO order: a task is never handed to a worker
\* while a task submitted earlier is still waiting in the queue, under any
\* interleaving of submissions, completions and worker failures.
C26_FifoDispatch == []QueueInOrder /\ [][OldestFirst]_vars

\* C26 witness: with one worker and three tasks submitted, the first has been
\* answered and the second handed over while the third still waits.
C26_Witness ==
    /\ outcome[1] = "resolved"
    /\ \E w \in WrapperIds : pending[w] = 2 /\ busy[w]
    /\ queue = <<3>>

\* C27: after destroy() has completed, the pool holds no workers and no worker
\* thread it has spawned is alive.
C27_DestroyLeavesNoWorker ==
    destroyState = "destroyed" =>
        /\ workers = <<>>
        /\ \A w \in WrapperIds : life[w] # "alive"

\* a task is only posted to a worker that is free: it was not busy and held no
\* task, or the step is the answer to the task it held (handleWorkerMessage
\* clears busy and settles that task before it calls processQueue)
PostsToFree ==
    \A w \in WrapperIds :
        HandsTask(w) =>
            \/ ~busy[w] /\ pending[w] = 0
            \/ busy[w] /\ pending[w] # 0 /\ outcome'[pending[w]] # "pending"

\* busy is set exactly when the worker holds a pending task
BusyIffPending == \A w \in WrapperIds : busy[w] <=> pending[w] # 0

\* C30: each worker processes at most one task at a time: in every reachable
\* state a worker's busy flag is set exactly when it holds a pending task, and
\* a task is never posted to a worker that is busy.
C30_OneTaskPerWorker == []BusyIffPending /\ [][PostsToFree]_vars

\* C30 witness: a worker is busy with a task while another task waits for it.
C30_Witness ==
    /\ \E w \in WrapperIds : busy[w] /\ pending[w] # 0 /\ life[w] = "alive"
    /\ Len(queue) >= 1
    /\ ~disabled

(***************************************************************************)
(* Claims about the history cache                                          *)
(***************************************************************************)
\* what getHistoryChunk(s) is to return: the chunk last stored for s, or null
LastStored(s) == IF hsLatest[s] = 0 THEN <<>> ELSE <<CachedChunk(s, hsLatest[s])>>

\* a getHistoryChunk call returns the chunk last stored for its session
GetsLastStored ==
    (hsGot' # hsGot /\ hsGot' # <<>>) =>
        hsGot'[1].result = LastStored(hsGot'[1].sessionId)

C29_EncodingDeterministic ==
    encAgain.status # "none" =>
        /\ encAgain.status = encResult.status
        /\ encAgain.buffer = encResult.buffer
        /\ encAgain.usedDiff = encResult.usedDiff

\* a diff frame encoded twice, with bytes the buffer's size counted and no write
\* filled (the header's size is counted as 32 and 28 bytes are written)
C29_Witness ==
    /\ encAgain.status = "ok"
    /\ encAgain.usedDiff
    /\ LET changed == DiffRows(encCur, encPrev) IN
        Len(encAgain.buffer) < 32 + 2 + 2 * Len(changed)
            + SumRowSizes([k \in 1..Len(changed) |-> encCur.cells[changed[k]]])

\* the bytes of the row data of the frame encoding encCur against encPrev: every
\* row record of a full frame; the count and the (index, row record) pairs of a
\* diff frame
RowData ==
    LET changed == DiffRows(encCur, encPrev) IN
    IF changed # <<>>
    THEN Flatten(<<Write(UInt16LE(Len(changed)))>> \o EncodeDiffRows(encCur.cells, changed))
    ELSE Flatten(EncodeFullRows(encCur.cells))

\* the little-endian 32-bit value at the 0-based offset of a frame
LE32At(buffer, offset) ==
    buffer[offset + 1] + 256 * buffer[offset + 2] + 65536 * buffer[offset + 3]
        + 16777216 * buffer[offset + 4]

\* the frame is a header of h bytes and then the row data (cut where a copy
\* reached the buffer's end)
RowDataStartsAt(h) ==
    LET buffer == encResult.buffer IN
    /\ Len(buffer) >= h
    /\ Len(buffer) - h <= Len(RowData)
    /\ SubSeq(buffer, h + 1, Len(buffer)) = SubSeq(RowData, 1, Len(buffer) - h)

\* C33 (as stated): every frame produced by encodeSnapshot starts with a header
\* of 16 bytes and the row data starts right after it.
C33_Header16Bytes ==
    (Encoded /\ encResult.status = "ok") => RowDataStartsAt(16)

\* C33 (amended): every frame produced by encodeSnapshot starts with a header of
\* 28 bytes holding magic (2 bytes), version, flag byte, and cols, rows,
\* viewportY, cursorX, cursorY and a reserved zero of 4 bytes each, and the row
\* data starts right after it.
C33_Header28Bytes ==
    (Encoded /\ encResult.status = "ok") =>
        LET buffer == encResult.buffer IN
        /\ RowDataStartsAt(28)
        /\ buffer[1] + 256 * buffer[2] = MAGIC_HEADER
        /\ buffer[3] = 1
        /\ FlagByte(buffer) = (IF encResult.usedDiff THEN 1 ELSE 0)
        /\ LE32At(buffer, 4) = encCur.cols
        /\ LE32At(buffer, 8) = encCur.rows
        /\ LE32At(buffer, 12) = encCur.viewportY
        /\ LE32At(buffer, 16) = encCur.cursorX
        /\ LE32At(buffer, 20) = encCur.cursorY
        /\ LE32At(buffer, 24) = 0

\* a diff frame and a full frame with a row of cells were produced
C33_Witness ==
    /\ Encoded
    /\ encResult.status = "ok"
    /\ encResult.usedDiff
    /\ Len(RowData) > 5

\* the size encodeSnapshot allocates for the frame encoding encCur against encPrev
AllocatedSize ==
    LET changed == DiffRows(encCur, encPrev) IN
    IF changed # <<>>
    THEN 32 + 2 + 2 * Len(changed)
         + SumRowSizes([k \in 1..Len(changed) |-> encCur.cells[changed[k]]])
    ELSE 32 + SumRowSizes(encCur.cells)

\* C34: for every snapshot, the buffer size encodeSnapshot precomputes is at least
\* the number of bytes the encoder then writes, so encoding never writes past the
\* allocated buffer, including for rows whose cells carry non-zero attributes.
C34_SizeCoversWrites ==
    Encoded =>
        /\ 28 + Len(RowData) <= AllocatedSize
        /\ encResult.status = "ok"

\* C35: until destroy() is called, the number of live workers held by the pool
\* never exceeds the configured pool size: each worker failure adds exactly one
\* replacement, also when a failing worker emits both an 'error' event and a
\* non-zero 'exit' event.
C35_PoolSizeBound ==
    destroyState = "live" =>
        Cardinality({w \in SeqSet(workers) : life[w] = "alive"}) <= PoolSize

\* C31: with a history store configured, the aggregator holds a history-store
\* subscription for a local session if and only if at least one connected client
\* is subscribed to that session, after any sequence of subscribe, unsubscribe
\* and client disconnect.
C31_HistorySubscriptionIffSubscribed ==
    \A s \in Sessions :
        s \in historySubs <=> GetTotalSubscribers(registered, subs, s) > 0

\* the messages a step appends to client c's socket
NewlySent(c) == SubSeq(outbox'[c], Len(outbox[c]) + 1, Len(outbox'[c]))

\* a handler that tells the client of a failed subscribe does not acknowledge it
AckOnlyWithoutError ==
    \A c \in Clients, s \in Sessions :
        LET new == NewlySent(c) IN
        (\E i \in 1..Len(new) : new[i] = <<"error", s>>)
            => /\ \A i \in 1..Len(new) : new[i] # <<"subscribed", s>>
               /\ subs'[c][s] = subs[c][s]

\* C39: when subscribing fails the client receives an error message and no
\* 'subscribed' acknowledgement, and no subscription entry is left behind; a
\* non-duplicate acknowledgement is sent only for a recorded subscription.
C39_NoAckAfterFailure == [][AckOnlyWithoutError]_vars

\* C40: each setHistoryChunk call invokes every listener subscribed to the chunk's
\* session exactly once in the calling process, for both stores, and invokes no
\* listener after its unsubscribe function has been called.
C40_ListenersInvokedOnce ==
    \A l \in ListenerIds, v \in ChunkVersions :
        hsCalls[l][v] = (IF l \in hsDue[v] THEN 1 ELSE 0)

\* the writes a step appends to client c's response
NewWrites(c) == SubSeq(ltOut'[c], Len(ltOut[c]) + 1, Len(ltOut'[c]))

\* with the recording no larger than lastOffset, a step reads nothing, broadcasts
\* nothing and leaves lastOffset and the line buffer as they are
QuietWithoutGrowth ==
    (ltInfo.present /\ ByteLength(ltFile) <= ltInfo.lastOffset) =>
        /\ ltReads' = ltReads
        /\ ltInfo'.lastOffset = ltInfo.lastOffset
        /\ ltInfo'.lineBuffer = ltInfo.lineBuffer
        /\ \A c \in TailClients :
              \A i \in 1..Len(NewWrites(c)) : NewWrites(c)[i].src # "live"

\* lastOffset never decreases
OffsetMonotone == ltInfo'.lastOffset >= ltInfo.lastOffset

\* the byte ranges read are not empty, lie inside the file, follow one another
\* and do not overlap
ReadsDisjoint ==
    /\ \A i \in 1..Len(ltReads) :
          ltReads[i][1] < ltReads[i][2] /\ ltReads[i][2] <= ByteLength(ltFile)
    /\ \A i, j \in 1..Len(ltReads) : i < j => ltReads[i][2] <= ltReads[j][1]

\* C32: live tailing reads only newly appended bytes: a file-change callback that
\* finds the recording no larger than lastOffset reads nothing, broadcasts
\* nothing and leaves lastOffset and the line buffer unchanged; lastOffset never
\* decreases and every byte range of the file is read by the tail at most once.
C32_TailReadsOnlyNewBytes ==
    []ReadsDisjoint /\ [][QuietWithoutGrowth /\ OffsetMonotone]_vars

\* a callback has found nothing new, and the tail has read two appended ranges
C32_Witness ==
    /\ ltIdleSeen
    /\ Len(ltReads) = 2
    /\ ltInfo.lastOffset = ByteLength(ltFile)

\* C36: no input ('i') event of the recording is ever written to a viewer's
\* stream, whether by history replay or by live tailing.
C36_NoInputEventWritten ==
    \A c \in TailClients : \A i \in 1..Len(ltOut[c]) : ltOut[c][i].kind # "i"

\* C37: no recording line is delivered twice to the same stream client: a line
\* that was part of the client's history replay is not delivered to it again by
\* live tailing.
C37_NoLineDeliveredTwice ==
    \A c \in TailClients :
        \A i \in 1..Len(ltOut[c]) :
            ltOut[c][i].src = "live" => ltOut[c][i].at \notin ltScan[c].replayed

\* C38: for a client added with addClient, every history-replay write precedes
\* any live-tailed event written to that client.
C38_ReplayBeforeLive ==
    \A c \in TailClients :
        \A i, j \in 1..Len(ltOut[c]) :
            (i < j /\ ltOut[c][i].src = "live") => ltOut[c][j].src # "replay"

====
